---- MODULE Spec2Model ----
(***************************************************************************)
(* Model of the email-data-management API handlers:                        *)
(*   POST /api/import        (src/src/app/api/import/route.ts)             *)
(*   POST /api/contacts      (src/unnamed/part_006)                        *)
(*   PUT  /api/contacts/[id] (src/src/app/api/contacts/[id]/route.ts)      *)
(*   DELETE /api/contacts/[id], POST /api/journals (same file)             *)
(*   POST /api/brands        (src/src/app/api/brands/route.ts)             *)
(*   PUT / DELETE /api/brands/[id] (src/unnamed/part_002)                  *)
(*   PUT / DELETE /api/journals/[id] (src/src/app/api/journals/[id]/route.ts) *)
(*   GET  /api/export        (src/unnamed/part_012)                        *)
(*   GET  /api/analytics     (src/unnamed/part_015)                        *)
(* over the relational store of the Prisma migration, of the client cache  *)
(* getPrismaClient (src/src/lib/prisma-dynamic.ts), and of the browser's   *)
(* DataProvider.fetchStats (src/unnamed/part_002) with the brands page     *)
(* (src/src/app/brands/page.tsx).                                          *)
(*                                                                         *)
(* JavaScript strings are tuples of one-character strings, so that trim,   *)
(* toLowerCase, endsWith, parseInt and the e-mail regex are computed.      *)
(* `undefined` is the tuple UNDEF; a nullable number is <<>> (null) or     *)
(* <<n>>.  A handler is cut at its awaited store calls: one action is one  *)
(* store call together with the synchronous code that follows it.          *)
(***************************************************************************)
EXTENDS Integers, Sequences, FiniteSets, TLC

\* ---------------------------------------------------------------- bounds
\* longest uploaded file, in data rows
MaxRows == 3
\* requests one client issues
MaxRuns == 2
\* requests all clients issue together
MaxRequests == 3
\* rows per createMany; the route uses 2000 (route.ts:174), scaled down so
\* that files of MaxRows rows span several batches
BATCH_SIZE == 2

Clients == {1, 2}

\* ------------------------------------------------------ JavaScript strings
UNDEF == <<"undefined">>

UpperChars == <<"A","B","C","D","E","F","G","H","I","J","K","L","M",
                "N","O","P","Q","R","S","T","U","V","W","X","Y","Z">>
LowerChars == <<"a","b","c","d","e","f","g","h","i","j","k","l","m",
                "n","o","p","q","r","s","t","u","v","w","x","y","z">>
Digits == <<"0","1","2","3","4","5","6","7","8","9">>

IsWs(ch) == ch \in {" ", "\t"}

DigitOf == [ch \in {Digits[k] : k \in 1..10} |-> (CHOOSE k \in 1..10 : Digits[k] = ch) - 1]

IsDigit(ch) == ch \in DOMAIN DigitOf

DigitVal(ch) == DigitOf[ch]

\* the lower-case letter of each upper-case letter
LowerOf ==
  [ch \in {UpperChars[k] : k \in 1..26} |->
     LowerChars[CHOOSE k \in 1..26 : UpperChars[k] = ch]]

LowerCh(ch) == IF ch \in DOMAIN LowerOf THEN LowerOf[ch] ELSE ch

RECURSIVE toLowerCase(_)
toLowerCase(s) ==
  IF s = <<>> THEN <<>> ELSE <<LowerCh(Head(s))>> \o toLowerCase(Tail(s))

\* the upper-case letter of each lower-case letter
UpperOf ==
  [ch \in {LowerChars[k] : k \in 1..26} |->
     UpperChars[CHOOSE k \in 1..26 : LowerChars[k] = ch]]

UpperCh(ch) == IF ch \in DOMAIN UpperOf THEN UpperOf[ch] ELSE ch

RECURSIVE toUpperCase(_)
toUpperCase(s) ==
  IF s = <<>> THEN <<>> ELSE <<UpperCh(Head(s))>> \o toUpperCase(Tail(s))

RECURSIVE trimStart(_)
trimStart(s) ==
  IF s # <<>> /\ IsWs(Head(s)) THEN trimStart(Tail(s)) ELSE s

RECURSIVE trimEnd(_)
trimEnd(s) ==
  IF s # <<>> /\ IsWs(s[Len(s)]) THEN trimEnd(SubSeq(s, 1, Len(s) - 1)) ELSE s

trim(s) == trimEnd(trimStart(s))

endsWith(s, suffix) ==
  /\ Len(s) >= Len(suffix)
  /\ SubSeq(s, Len(s) - Len(suffix) + 1, Len(s)) = suffix

\* value?.trim(): undefined stays undefined
optTrim(v) == IF v = UNDEF THEN UNDEF ELSE trim(v)

\* !v for a string-or-undefined value
falsy(v) == v = UNDEF \/ v = <<>>

\* v || null for a string-or-undefined value
orNull(v) == IF falsy(v) THEN <<>> ELSE <<v>>

RECURSIVE parseDigits(_, _, _)
parseDigits(s, acc, seen) ==
  IF s # <<>> /\ IsDigit(Head(s))
    THEN parseDigits(Tail(s), acc * 10 + DigitVal(Head(s)), TRUE)
    ELSE IF seen THEN <<acc>> ELSE <<>>

\* parseInt(s, 10): leading white space, an optional sign, then the longest
\* run of digits; <<>> is NaN
parseInt(s) ==
  LET t == trimStart(s) IN
  IF t = <<>> THEN <<>>
  ELSE IF Head(t) = "-"
    THEN LET r == parseDigits(Tail(t), 0, FALSE) IN
         IF r = <<>> THEN <<>> ELSE <<0 - r[1]>>
  ELSE IF Head(t) = "+" THEN parseDigits(Tail(t), 0, FALSE)
  ELSE parseDigits(t, 0, FALSE)

\* ------------------------------------------------------------ CSV columns
NameH == <<"n","a","m","e">>
EmailH == <<"e","m","a","i","l">>
PhoneH == <<"p","h","o","n","e">>
TitleH == <<"a","r","t","i","c","l","e","_","t","i","t","l","e">>
YearH == <<"y","e","a","r">>

requiredHeaders == <<NameH, EmailH>>

\* transformHeader of Papa.parse
transformHeader(header) == toLowerCase(trim(header))

\* parseResult.meta.fields
Fields(headers) == [k \in 1..Len(headers) |-> transformHeader(headers[k])]

\* row[h] of a parsed row, fields being the transformed headers: the cell
\* under the column named h, else undefined
Cell(fields, row, h) ==
  IF \E k \in 1..Len(fields) : fields[k] = h
    THEN row[CHOOSE k \in 1..Len(fields) : fields[k] = h]
    ELSE UNDEF

RECURSIVE FilterMissing(_, _)
FilterMissing(req, fields) ==
  IF req = <<>> THEN <<>>
  ELSE (IF \E k \in 1..Len(fields) : fields[k] = Head(req)
          THEN <<>> ELSE <<Head(req)>>) \o FilterMissing(Tail(req), fields)

\* mutant: only the first missing header is reported
missingHeadersFirstOnly(headers) ==
  LET m == FilterMissing(requiredHeaders, Fields(headers)) IN
  IF m = <<>> THEN <<>> ELSE <<Head(m)>>

\* requiredHeaders.filter((h) => !headers.includes(h))
missingHeaders(headers) == FilterMissing(requiredHeaders, Fields(headers))

maxSize == 10 * 1024 * 1024


\* ------------------------------------------------------- row validation
\* The loop body of "Validate and collect valid rows" for one parsed row:
\* the values the route derives from it.
RowValues(fields, row) ==
  LET yearStr == optTrim(Cell(fields, row, YearH)) IN
  [ name         |-> optTrim(Cell(fields, row, NameH)),
    email        |-> IF Cell(fields, row, EmailH) = UNDEF THEN UNDEF
                     ELSE toLowerCase(trim(Cell(fields, row, EmailH))),
    phone        |-> orNull(optTrim(Cell(fields, row, PhoneH))),
    articleTitle |-> orNull(optTrim(Cell(fields, row, TitleH))),
    yearStr      |-> yearStr,
    year         |-> IF falsy(yearStr) THEN <<>> ELSE parseInt(yearStr) ]

\* if (!name || !email)
MissingNameOrEmail(v) == falsy(v.name) \/ falsy(v.email)

\* mutant: the lower bound is not checked
InvalidYearNoLowerBound(v) ==
  /\ ~falsy(v.yearStr)
  /\ (v.year = <<>> \/ v.year[1] > 2100)

\* mutant: the bounds 1900 and 2100 are excluded
InvalidYearExclusive(v) ==
  /\ ~falsy(v.yearStr)
  /\ (v.year = <<>> \/ v.year[1] <= 1900 \/ v.year[1] >= 2100)

\* if (yearStr && (isNaN(year) || year < 1900 || year > 2100))
InvalidYear(v) ==
  /\ ~falsy(v.yearStr)
  /\ (v.year = <<>> \/ v.year[1] < 1900 \/ v.year[1] > 2100)

\* errorDetails.push guarded by errorDetails.length < 10
PushDetail(details, msg) ==
  IF Len(details) < 10 THEN Append(details, msg) ELSE details

\* mutant: the year is checked even after a missing name or e-mail was
\* counted, so that a row with both faults counts twice
ValidateRowBothChecks(acc, fields, row) ==
  LET v == RowValues(fields, row)
      e == (IF MissingNameOrEmail(v) THEN 1 ELSE 0) + (IF InvalidYear(v) THEN 1 ELSE 0)
  IN IF e > 0
       THEN [acc EXCEPT !.errors = @ + e,
                        !.errorDetails = PushDetail(@, "Invalid row")]
       ELSE [acc EXCEPT !.validContacts =
               Append(@, [name |-> v.name, email |-> v.email, phone |-> v.phone,
                          articleTitle |-> v.articleTitle, year |-> v.year])]

\* One iteration of the validation loop on the accumulator
\* [errors, errorDetails, validContacts].
ValidateRow(acc, fields, row) ==
  LET v == RowValues(fields, row) IN
  IF MissingNameOrEmail(v)
    THEN [acc EXCEPT !.errors = @ + 1,
                     !.errorDetails = PushDetail(@, "Missing name or email in row")]
  ELSE IF InvalidYear(v)
    THEN [acc EXCEPT !.errors = @ + 1,
                     !.errorDetails = PushDetail(@, "Invalid year")]
  ELSE [acc EXCEPT !.validContacts =
          Append(@, [name |-> v.name, email |-> v.email, phone |-> v.phone,
                     articleTitle |-> v.articleTitle, year |-> v.year])]

RECURSIVE ValidateRows(_, _, _)
ValidateRows(acc, fields, rows) ==
  IF rows = <<>> THEN acc
  ELSE ValidateRows(ValidateRow(acc, fields, Head(rows)), fields, Tail(rows))

\* ------------------------------------------------------------------ state
VARIABLES
  brands,        \* the brands table: a set of rows [id, name, code, status]
  journals,      \* the journals table: a set of rows [id, name, brandId, status]
  contacts,      \* the email_contacts table: a set of rows
  nextBrandId,   \* the number of the next brand id the store hands out
  nextJournalId, \* the number of the next journal id the store hands out
  nextId,        \* the next contact id the store hands out
  now,           \* the server's clock, CURRENT_TIMESTAMP and new Date()
  zone,          \* the server's time zone: local time = UTC + zone
  upload,        \* upload[c]: the file client c submits, as Papa.parse reads it
  runs,          \* runs[c]: requests client c has issued
  req,           \* req[c]: the request of client c being handled, and its response
  prismaClients, \* the Map of prisma-dynamic.ts: entries [url, client], oldest insertion first
  disconnected,  \* the PrismaClient instances $disconnect() was called on
  poolLog,       \* history of getPrismaClient: instances made, URLs seen, recency, eviction
  provider,      \* the DataProvider's state and the browser's localStorage
  fetches        \* the fetchStats calls of the DataProvider, in the order they started

\* the brand and journal tables with their id generators
tree == <<brands, journals, nextBrandId, nextJournalId>>

\* the clock and the time zone of the server process
env == <<now, zone>>

\* the server's client cache and the browser's data provider
libs == <<prismaClients, disconnected, poolLog, provider, fetches>>

vars == <<brands, journals, contacts, nextBrandId, nextJournalId, nextId,
          now, zone, upload, runs, req,
          prismaClients, disconnected, poolLog, provider, fetches>>

\* prisma.journal.findUnique({ where: { id } }) finds a row
JournalFound(id) == \E j \in journals : j.id = id

\* prisma.brand.findUnique({ where: { id } }) finds a row
BrandFound(id) == \E b \in brands : b.id = id

\* the ids the store hands out to brands and journals, by their number
BrandKeys == <<"B1", "B2", "B3", "B4", "B5", "B6", "B7", "B8">>
JournalKeys == <<"J1", "J2", "J3", "J4", "J5", "J6", "J7", "J8">>

BrandRow(id, name, code) ==
  [id |-> id, name |-> name, code |-> code, status |-> "ACTIVE"]

\* a journal row; the columns issn, subject and frequency, which no handler
\* reads back, are left out
JournalRow(id, name, brandId) ==
  [id |-> id, name |-> name, brandId |-> brandId, status |-> "ACTIVE"]

\* ------------------------------------------------------------- the store
\* mutant: the unique key is the e-mail alone, whatever the journal
UniqueConflictGlobal(rows, email, journalId, exceptId) ==
  \E k \in rows : k.email = email /\ k.id # exceptId

\* email_contacts_email_journal_id_key: UNIQUE (email, journal_id)
UniqueConflict(rows, email, journalId, exceptId) ==
  \E k \in rows : k.email = email /\ k.journalId = journalId /\ k.id # exceptId

\* mutant: the count returned is that of the rows given, skipped ones too
RECURSIVE createManyCountsAll(_, _, _)
createManyCountsAll(acc, data, journalId) ==
  IF data = <<>> THEN acc
  ELSE LET d == Head(data) IN
       IF UniqueConflict(acc.rows, d.email, journalId, 0)
         THEN createManyCountsAll([acc EXCEPT !.count = @ + 1], Tail(data), journalId)
         ELSE createManyCountsAll(
                [rows  |-> acc.rows \cup
                             {[id |-> acc.next, name |-> d.name, email |-> d.email,
                               phone |-> d.phone, articleTitle |-> d.articleTitle,
                               year |-> d.year, journalId |-> journalId,
                               createdAt |-> now]},
                 next  |-> acc.next + 1,
                 count |-> acc.count + 1],
                Tail(data), journalId)

\* prisma.emailContact.createMany({data, skipDuplicates: true}): the rows of
\* data are inserted in order, a row that hits the unique key is skipped.
\* acc is [rows, next, count]: the table, the next id, the rows inserted.
RECURSIVE createMany(_, _, _)
createMany(acc, data, journalId) ==
  IF data = <<>> THEN acc
  ELSE LET d == Head(data) IN
       IF UniqueConflict(acc.rows, d.email, journalId, 0)
         THEN createMany(acc, Tail(data), journalId)
         ELSE createMany(
                [rows  |-> acc.rows \cup
                             {[id |-> acc.next, name |-> d.name, email |-> d.email,
                               phone |-> d.phone, articleTitle |-> d.articleTitle,
                               year |-> d.year, journalId |-> journalId,
                               createdAt |-> now]},
                 next  |-> acc.next + 1,
                 count |-> acc.count + 1],
                Tail(data), journalId)

\* validContacts.slice(i, i + BATCH_SIZE), i counted from 0
Batch(validContacts, i) ==
  SubSeq(validContacts, i + 1,
         IF i + BATCH_SIZE < Len(validContacts) THEN i + BATCH_SIZE
         ELSE Len(validContacts))


\* ---------------------------------------------------------------- requests
NoSummary ==
  [total |-> 0, imported |-> 0, duplicates |-> 0, errors |-> 0, errorDetails |-> <<>>]

\* the JSON body of GET /api/analytics
NoBody ==
  [totalContacts |-> 0, totalJournals |-> 0, activeJournals |-> 0,
   thisWeekCount |-> 0, percentChange |-> 0, brandData |-> <<>>,
   monthlyData |-> <<>>, topJournals |-> <<>>, brands |-> <<>>,
   journals |-> <<>>]

\* a response: n is the number an error message names, csv the lines of a
\* CSV body, body the analytics document
NoResponse ==
  [status |-> 0, success |-> FALSE, error |-> "", missing |-> <<>>,
   summary |-> NoSummary, n |-> 0, csv |-> <<>>, body |-> NoBody]

\* NextResponse.json({ error }, { status })
ErrorResponse(status, error) ==
  [NoResponse EXCEPT !.status = status, !.error = error]

\* a request record; the fields after resp are history, not program state:
\* before (the table when the request arrived), inserted (ids of the rows its
\* createMany calls inserted), attempted / failed (batch offsets issued /
\* thrown), faulted (a store call threw), prev (the journalId and response of
\* the client's previous request), updated (ids of the rows its update
\* changed), atWrite (the table its create or update call found),
\* goneJournals / goneContacts (ids of the rows its delete removed),
\* atQuery / found (the table findMany read and the ids it returned, in order);
\* startDate, endDate and where are the export's parameters and where clause;
\* prisma is the PrismaClient instance getPrismaForRequest returned
NoPrev == [journalId |-> "", resp |-> NoResponse]

\* the locals of GET /api/analytics: the instants of part_015 19-29, the
\* queries of Promise.all still unanswered, their results, and (history) the
\* email_contacts and journals tables as each query read them
NoAnalytics ==
  [now |-> 0, weekAgo |-> 0, sixMonthsAgo |-> 0, currentMonthStart |-> 0,
   lastMonthStart |-> 0, lastMonthEnd |-> 0, pending |-> {},
   totalContacts |-> 0, totalJournals |-> 0, activeJournals |-> 0,
   thisWeekCount |-> 0, currentMonthCount |-> 0, lastMonthCount |-> 0,
   brands |-> <<>>, journals |-> <<>>, emailsByMonth |-> <<>>,
   read |-> <<>>]

IdleReq ==
  [op |-> "none", pc |-> "idle", journalId |-> "", validContacts |-> <<>>,
   id |-> 0, name |-> <<>>, email |-> <<>>, brandId |-> "", code |-> <<>>,
   i |-> 0, totalInserted |-> 0, errors |-> 0, errorDetails |-> <<>>,
   resp |-> NoResponse,
   before |-> {}, inserted |-> {}, attempted |-> {}, failed |-> {},
   faulted |-> FALSE, prev |-> NoPrev, updated |-> {}, atWrite |-> {},
   goneJournals |-> {}, goneContacts |-> {},
   startDate |-> "", endDate |-> "", where |-> <<>>,
   atQuery |-> {}, found |-> <<>>, an |-> NoAnalytics, prisma |-> 0]

\* sum of runs over the clients
RECURSIVE SumRuns(_)
SumRuns(S) ==
  IF S = {} THEN 0
  ELSE LET c == CHOOSE x \in S : TRUE IN runs[c] + SumRuns(S \ {c})

CanStart(c) ==
  /\ req[c].pc \in {"idle", "done"}
  /\ runs[c] < MaxRuns
  /\ SumRuns(Clients) < MaxRequests

Respond(r, resp) == [r EXCEPT !.pc = "done", !.resp = resp]

\* ------------------------------------------------------- POST /api/import
\* route.ts 39-68: the checks made before the first store call; "" when the
\* request passes them
PreCheck(u, journalId) ==
  IF ~u.file THEN "No file provided"
  ELSE IF journalId = "" THEN "Journal ID is required"
  ELSE IF ~endsWith(u.fileName, <<".","c","s","v">>) THEN "Only CSV files are allowed"
  ELSE IF u.size > maxSize THEN "File size must be less than 10MB"
  ELSE ""

\* mutant: the required headers are not checked
PostCheckNoHeaders(u, journalFound) ==
  IF ~journalFound THEN ErrorResponse(404, "Journal not found")
  ELSE IF u.parseErrors > 0 THEN ErrorResponse(400, "CSV parsing errors")
  ELSE IF Len(u.rows) = 0
    THEN ErrorResponse(400, "CSV file is empty or has no valid data rows")
  ELSE NoResponse

\* route.ts 78-124: the checks made after the journal lookup; the response
\* that rejects the request, or NoResponse when it passes them
PostCheck(u, journalFound) ==
  IF ~journalFound THEN ErrorResponse(404, "Journal not found")
  ELSE IF u.parseErrors > 0 THEN ErrorResponse(400, "CSV parsing errors")
  ELSE IF Len(u.rows) = 0
    THEN ErrorResponse(400, "CSV file is empty or has no valid data rows")
  ELSE IF Len(missingHeaders(u.headers)) > 0
    THEN [ErrorResponse(400, "Missing required headers")
            EXCEPT !.missing = missingHeaders(u.headers)]
  ELSE NoResponse

\* mutant: duplicates are counted against all rows of the file
SummaryAllRows(u, r) ==
  [NoResponse EXCEPT
     !.status = 200, !.success = TRUE,
     !.summary = [total        |-> Len(u.rows),
                  imported     |-> r.totalInserted,
                  duplicates   |-> Len(u.rows) - r.totalInserted,
                  errors       |-> r.errors,
                  errorDetails |-> r.errorDetails]]

\* route.ts 199-216: the success response
Summary(u, r) ==
  [NoResponse EXCEPT
     !.status = 200, !.success = TRUE,
     !.summary = [total        |-> Len(u.rows),
                  imported     |-> r.totalInserted,
                  duplicates   |-> Len(r.validContacts) - r.totalInserted,
                  errors       |-> r.errors,
                  errorDetails |-> r.errorDetails]]

\* the for loop of route.ts 177 after the batch at r.i: next batch or respond
AfterBatch(u, r) ==
  LET r2 == [r EXCEPT !.i = @ + BATCH_SIZE] IN
  IF r2.i < Len(r2.validContacts) THEN r2 ELSE Respond(r2, Summary(u, r2))

\* the request arrives; route.ts 35-76 up to the awaited journal lookup
ImportRequest(c, journalId) ==
  /\ CanStart(c)
  /\ runs' = [runs EXCEPT ![c] = @ + 1]
  /\ LET r == [IdleReq EXCEPT !.op = "import", !.journalId = journalId,
                              !.before = contacts,
                              !.prev = [journalId |-> req[c].journalId,
                                        resp |-> req[c].resp]]
         e == PreCheck(upload[c], journalId)
     IN req' = [req EXCEPT ![c] =
                  IF e # "" THEN Respond(r, ErrorResponse(400, e))
                  ELSE [r EXCEPT !.pc = "lookup"]]
  /\ UNCHANGED <<tree, env, libs, contacts, nextId, upload>>

\* prisma.journal.findUnique answers; route.ts 78-177 up to the first
\* awaited createMany
ImportLookup(c) ==
  /\ req[c].op = "import" /\ req[c].pc = "lookup"
  /\ LET u == upload[c]
         r == req[c]
         rej == PostCheck(u, JournalFound(r.journalId))
         acc == ValidateRows([errors |-> 0, errorDetails |-> <<>>,
                              validContacts |-> <<>>], Fields(u.headers), u.rows)
         r2 == [r EXCEPT !.errors = acc.errors,
                         !.errorDetails = acc.errorDetails,
                         !.validContacts = acc.validContacts]
     IN req' = [req EXCEPT ![c] =
                  IF rej # NoResponse THEN Respond(r, rej)
                  ELSE IF Len(r2.validContacts) = 0 THEN Respond(r2, Summary(u, r2))
                  ELSE [r2 EXCEPT !.pc = "batch"]]
  /\ UNCHANGED <<tree, env, libs, contacts, nextId, upload, runs>>

\* the catch of route.ts 191-196 for the batch at r.i: the rows of the batch
\* are counted as errors
BatchCaught(r) ==
  [r EXCEPT !.errors = @ + Len(Batch(r.validContacts, r.i)),
            !.errorDetails = PushDetail(@, "Batch insert error"),
            !.attempted = @ \cup {r.i},
            !.failed = @ \cup {r.i},
            !.faulted = TRUE]

\* one createMany of route.ts 182-190 answers: the rows are inserted, or,
\* the journal being gone, email_contacts_journal_id_fkey rejects the
\* statement and the catch counts the batch
ImportBatch(c) ==
  /\ req[c].op = "import" /\ req[c].pc = "batch"
  /\ LET r == req[c]
         res == createMany([rows |-> contacts, next |-> nextId, count |-> 0],
                           Batch(r.validContacts, r.i), r.journalId)
         r2 == [r EXCEPT !.totalInserted = @ + res.count,
                         !.attempted = @ \cup {r.i},
                         !.inserted = @ \cup {k.id : k \in res.rows \ contacts}]
     IN IF JournalFound(r.journalId)
          THEN /\ contacts' = res.rows
               /\ nextId' = res.next
               /\ req' = [req EXCEPT ![c] = AfterBatch(upload[c], r2)]
          ELSE /\ req' = [req EXCEPT ![c] = AfterBatch(upload[c], BatchCaught(r))]
               /\ UNCHANGED <<contacts, nextId>>
  /\ UNCHANGED <<tree, env, libs, upload, runs>>


\* the store throws on the journal lookup: the outer catch of route.ts
\* 217-223 answers 500
ImportLookupFail(c) ==
  /\ req[c].op = "import" /\ req[c].pc = "lookup"
  /\ req' = [req EXCEPT ![c] =
               Respond([@ EXCEPT !.faulted = TRUE],
                       ErrorResponse(500, "Failed to process CSV import"))]
  /\ UNCHANGED <<tree, env, libs, contacts, nextId, upload, runs>>

\* mutant: a failed batch ends the loop, the batches after it are not issued
ImportBatchFailStops(c) ==
  /\ req[c].op = "import" /\ req[c].pc = "batch"
  /\ LET r == req[c]
         r2 == [r EXCEPT !.errors = @ + Len(Batch(r.validContacts, r.i)),
                         !.errorDetails = PushDetail(@, "Batch insert error"),
                         !.attempted = @ \cup {r.i},
                         !.failed = @ \cup {r.i},
                         !.faulted = TRUE]
     IN req' = [req EXCEPT ![c] = Respond(r2, Summary(upload[c], r2))]
  /\ UNCHANGED <<tree, env, libs, contacts, nextId, upload, runs>>

\* one createMany throws (the store is unreachable or times out): the catch
\* of route.ts 191-196 counts the batch as errors and the loop goes on
ImportBatchFail(c) ==
  /\ req[c].op = "import" /\ req[c].pc = "batch"
  /\ req' = [req EXCEPT ![c] = AfterBatch(upload[c], BatchCaught(req[c]))]
  /\ UNCHANGED <<tree, env, libs, contacts, nextId, upload, runs>>

\* ------------------------------------- POST /api/contacts, PUT /api/contacts/[id]
NotWsAt(ch) == ~IsWs(ch) /\ ch # "@"

\* /^[^\s@]+@[^\s@]+\.[^\s@]+$/.test(email)
emailRegex(s) ==
  \E i \in 2..Len(s) : \E j \in (i + 2)..(Len(s) - 1) :
    /\ s[i] = "@"
    /\ s[j] = "."
    /\ \A k \in 1..Len(s) : k # i => NotWsAt(s[k])

\* part_006 92-106 and [id]/route.ts 67-81: the checks on the JSON body; ""
\* when it passes them
BodyCheck(name, email, journalId) ==
  IF falsy(name) \/ falsy(email) \/ journalId = ""
    THEN "Name, email, and journalId are required"
  ELSE IF ~emailRegex(email) THEN "Invalid email format"
  ELSE ""

\* POST /api/contacts arrives; part_006 88-111 up to the journal lookup
CreateRequest(c, name, email, journalId) ==
  /\ CanStart(c)
  /\ runs' = [runs EXCEPT ![c] = @ + 1]
  /\ LET r == [IdleReq EXCEPT !.op = "create", !.journalId = journalId,
                              !.name = name, !.email = email]
         e == BodyCheck(name, email, journalId)
     IN req' = [req EXCEPT ![c] =
                  IF e # "" THEN Respond(r, ErrorResponse(400, e))
                  ELSE [r EXCEPT !.pc = "lookup"]]
  /\ UNCHANGED <<tree, env, libs, contacts, nextId, upload>>

\* prisma.journal.findUnique answers; part_006 113-121
CreateLookup(c) ==
  /\ req[c].op = "create" /\ req[c].pc = "lookup"
  /\ req' = [req EXCEPT ![c] =
               IF ~JournalFound(req[c].journalId)
                 THEN Respond(@, ErrorResponse(404, "Journal not found"))
                 ELSE [@ EXCEPT !.pc = "write"]]
  /\ UNCHANGED <<tree, env, libs, contacts, nextId, upload, runs>>

\* mutant: the row is inserted whatever the table holds
CreateWriteUnchecked(c) ==
  /\ req[c].op = "create" /\ req[c].pc = "write"
  /\ contacts' = contacts \cup
       {[id |-> nextId, name |-> req[c].name, email |-> toLowerCase(req[c].email),
         phone |-> <<>>, articleTitle |-> <<>>, year |-> <<>>,
         journalId |-> req[c].journalId, createdAt |-> now]}
  /\ nextId' = nextId + 1
  /\ req' = [req EXCEPT ![c] =
               Respond([@ EXCEPT !.inserted = {nextId}, !.atWrite = contacts],
                       [NoResponse EXCEPT !.status = 201, !.success = TRUE])]
  /\ UNCHANGED <<tree, env, libs, upload, runs>>

\* prisma.emailContact.create answers; part_006 121-162: the row is inserted
\* (201), or the unique key rejects it, P2002 (409), or the journal is gone
\* and email_contacts_journal_id_fkey rejects it, P2003 (500)
CreateWrite(c) ==
  /\ req[c].op = "create" /\ req[c].pc = "write"
  /\ LET r == req[c]
         email == toLowerCase(r.email)
     IN IF ~JournalFound(r.journalId)
          THEN /\ req' = [req EXCEPT ![c] =
                            Respond([@ EXCEPT !.atWrite = contacts],
                              ErrorResponse(500, "Failed to create contact"))]
               /\ UNCHANGED <<contacts, nextId>>
        ELSE IF UniqueConflict(contacts, email, r.journalId, 0)
          THEN /\ req' = [req EXCEPT ![c] =
                            Respond([@ EXCEPT !.atWrite = contacts],
                              ErrorResponse(409,
                                "This email already exists in the database"))]
               /\ UNCHANGED <<contacts, nextId>>
          ELSE /\ contacts' = contacts \cup
                    {[id |-> nextId, name |-> r.name, email |-> email,
                      phone |-> <<>>, articleTitle |-> <<>>, year |-> <<>>,
                      journalId |-> r.journalId, createdAt |-> now]}
               /\ nextId' = nextId + 1
               /\ req' = [req EXCEPT ![c] =
                            Respond([@ EXCEPT !.inserted = {nextId}, !.atWrite = contacts],
                              [NoResponse EXCEPT !.status = 201, !.success = TRUE])]
  /\ UNCHANGED <<tree, env, libs, upload, runs>>

\* PUT /api/contacts/[id] arrives; [id]/route.ts 62-86 up to the contact lookup
UpdateRequest(c, id, name, email, journalId) ==
  /\ CanStart(c)
  /\ runs' = [runs EXCEPT ![c] = @ + 1]
  /\ LET r == [IdleReq EXCEPT !.op = "update", !.id = id,
                              !.journalId = journalId,
                              !.name = name, !.email = email]
         e == BodyCheck(name, email, journalId)
     IN req' = [req EXCEPT ![c] =
                  IF e # "" THEN Respond(r, ErrorResponse(400, e))
                  ELSE [r EXCEPT !.pc = "find"]]
  /\ UNCHANGED <<tree, env, libs, contacts, nextId, upload>>

\* prisma.emailContact.findUnique answers; [id]/route.ts 88-98
UpdateFind(c) ==
  /\ req[c].op = "update" /\ req[c].pc = "find"
  /\ req' = [req EXCEPT ![c] =
               IF ~\E k \in contacts : k.id = req[c].id
                 THEN Respond(@, ErrorResponse(404, "Contact not found"))
                 ELSE [@ EXCEPT !.pc = "lookup"]]
  /\ UNCHANGED <<tree, env, libs, contacts, nextId, upload, runs>>

\* prisma.journal.findUnique answers; [id]/route.ts 100-107
UpdateLookup(c) ==
  /\ req[c].op = "update" /\ req[c].pc = "lookup"
  /\ req' = [req EXCEPT ![c] =
               IF ~JournalFound(req[c].journalId)
                 THEN Respond(@, ErrorResponse(404, "Journal not found"))
                 ELSE [@ EXCEPT !.pc = "write"]]
  /\ UNCHANGED <<tree, env, libs, contacts, nextId, upload, runs>>

\* mutant: the e-mail is stored as the form spells it
UpdatedKeepsCase(rows, r) ==
  {IF k.id = r.id
     THEN [k EXCEPT !.name = r.name, !.email = r.email,
                    !.phone = <<>>, !.articleTitle = <<>>,
                    !.journalId = r.journalId]
     ELSE k : k \in rows}

\* the row of id with the form's name, e-mail and journal
Updated(rows, r) ==
  {IF k.id = r.id
     THEN [k EXCEPT !.name = r.name, !.email = toLowerCase(r.email),
                    !.phone = <<>>, !.articleTitle = <<>>,
                    !.journalId = r.journalId]
     ELSE k : k \in rows}

\* prisma.emailContact.update answers; [id]/route.ts 107-143: the row is
\* changed (200), or the unique key rejects the change, P2002 (409), or the
\* row is gone, P2025, or the journal is gone, P2003 (both 500)
UpdateWrite(c) ==
  /\ req[c].op = "update" /\ req[c].pc = "write"
  /\ LET r == req[c] IN
     IF ~\E k \in contacts : k.id = r.id
       THEN /\ req' = [req EXCEPT ![c] =
                         Respond([@ EXCEPT !.atWrite = contacts],
                           ErrorResponse(500, "Failed to update contact"))]
            /\ UNCHANGED contacts
     ELSE IF ~JournalFound(r.journalId)
       THEN /\ req' = [req EXCEPT ![c] =
                         Respond([@ EXCEPT !.atWrite = contacts],
                           ErrorResponse(500, "Failed to update contact"))]
            /\ UNCHANGED contacts
     ELSE IF UniqueConflict(contacts, toLowerCase(r.email), r.journalId, r.id)
       THEN /\ req' = [req EXCEPT ![c] =
                         Respond([@ EXCEPT !.atWrite = contacts],
                           ErrorResponse(409,
                             "This email already exists in the database"))]
            /\ UNCHANGED contacts
     ELSE /\ contacts' = Updated(contacts, r)
          /\ req' = [req EXCEPT ![c] =
                       Respond([@ EXCEPT !.updated = {r.id}, !.atWrite = contacts],
                         [NoResponse EXCEPT !.status = 200, !.success = TRUE])]
  /\ UNCHANGED <<tree, env, libs, nextId, upload, runs>>

\* ------------------------------------ POST /api/brands, PUT /api/brands/[id]
\* { equals: v, mode: 'insensitive' }
equalsInsensitive(a, v) == toLowerCase(a) = toLowerCase(v)

\* brands_name_key, brands_code_key: UNIQUE (name), UNIQUE (code), compared
\* as stored; another row than exceptId holds the name or the code
BrandUniqueConflict(rows, name, code, exceptId) ==
  \E b \in rows : b.id # exceptId /\ (b.name = name \/ b.code = code)

\* POST /api/brands arrives; brands/route.ts 66-78 up to the awaited findFirst
BrandCreateRequest(c, name, code) ==
  /\ CanStart(c)
  /\ runs' = [runs EXCEPT ![c] = @ + 1]
  /\ LET r == [IdleReq EXCEPT !.op = "brandCreate", !.name = name, !.code = code]
     IN req' = [req EXCEPT ![c] =
                  IF falsy(name) \/ falsy(code)
                    THEN Respond(r, ErrorResponse(400, "Name and code are required"))
                    ELSE [r EXCEPT !.pc = "find"]]
  /\ UNCHANGED <<tree, env, libs, contacts, nextId, upload>>

\* prisma.brand.findFirst answers; brands/route.ts 78-94
BrandCreateFind(c) ==
  /\ req[c].op = "brandCreate" /\ req[c].pc = "find"
  /\ LET r == req[c]
         existingBrand ==
           \E b \in brands : \/ equalsInsensitive(b.name, r.name)
                             \/ equalsInsensitive(b.code, r.code)
     IN req' = [req EXCEPT ![c] =
                  IF existingBrand
                    THEN Respond(r, ErrorResponse(409,
                           "Brand with this name or code already exists"))
                    ELSE [r EXCEPT !.pc = "write"]]
  /\ UNCHANGED <<tree, env, libs, contacts, nextId, upload, runs>>

\* prisma.brand.create answers; brands/route.ts 94-114: the row is inserted
\* with its code in upper case (201), or a unique index rejects it, P2002,
\* which the catch answers with 500
BrandCreateWrite(c) ==
  /\ req[c].op = "brandCreate" /\ req[c].pc = "write"
  /\ LET r == req[c]
         code == toUpperCase(r.code)
     IN IF BrandUniqueConflict(brands, r.name, code, "")
          THEN /\ req' = [req EXCEPT ![c] =
                            Respond(r, ErrorResponse(500, "Failed to create brand"))]
               /\ UNCHANGED <<brands, nextBrandId>>
          ELSE /\ brands' = brands \cup
                    {BrandRow(BrandKeys[nextBrandId], r.name, code)}
               /\ nextBrandId' = nextBrandId + 1
               /\ req' = [req EXCEPT ![c] =
                            Respond([r EXCEPT !.brandId = BrandKeys[nextBrandId]],
                              [NoResponse EXCEPT !.status = 201, !.success = TRUE])]
  /\ UNCHANGED <<journals, nextJournalId, env, libs, contacts, nextId, upload, runs>>

\* PUT /api/brands/[id] arrives; part_002 49-54 up to the awaited findUnique
BrandUpdateRequest(c, id, name, code) ==
  /\ CanStart(c)
  /\ runs' = [runs EXCEPT ![c] = @ + 1]
  /\ req' = [req EXCEPT ![c] =
               [IdleReq EXCEPT !.op = "brandUpdate", !.pc = "find",
                               !.brandId = id, !.name = name, !.code = code]]
  /\ UNCHANGED <<tree, env, libs, contacts, nextId, upload>>

\* prisma.brand.findUnique answers; part_002 54-64
BrandUpdateFind(c) ==
  /\ req[c].op = "brandUpdate" /\ req[c].pc = "find"
  /\ LET r == req[c] IN
     req' = [req EXCEPT ![c] =
               IF ~BrandFound(r.brandId)
                 THEN Respond(r, ErrorResponse(404, "Brand not found"))
               ELSE IF ~falsy(r.name) \/ ~falsy(r.code)
                 THEN [r EXCEPT !.pc = "conflict"]
               ELSE [r EXCEPT !.pc = "write"]]
  /\ UNCHANGED <<tree, env, libs, contacts, nextId, upload, runs>>

\* prisma.brand.findFirst answers; part_002 64-90
BrandUpdateConflict(c) ==
  /\ req[c].op = "brandUpdate" /\ req[c].pc = "conflict"
  /\ LET r == req[c]
         conflictingBrand ==
           \E b \in brands :
             /\ b.id # r.brandId
             /\ \/ ~falsy(r.name) /\ equalsInsensitive(b.name, r.name)
                \/ ~falsy(r.code) /\ equalsInsensitive(b.code, r.code)
     IN req' = [req EXCEPT ![c] =
                  IF conflictingBrand
                    THEN Respond(r, ErrorResponse(409,
                           "Brand with this name or code already exists"))
                    ELSE [r EXCEPT !.pc = "write"]]
  /\ UNCHANGED <<tree, env, libs, contacts, nextId, upload, runs>>

\* the row b with the data of part_002 92-96: name and code are written
\* when the body gives them, the code in upper case
BrandUpdated(b, r) ==
  [b EXCEPT !.name = IF falsy(r.name) THEN @ ELSE r.name,
            !.code = IF falsy(r.code) THEN @ ELSE toUpperCase(r.code)]

\* prisma.brand.update answers; part_002 90-111: the row is changed (200),
\* or it is gone, P2025, or a unique index rejects the change, P2002, both
\* answered with 500 by the catch
BrandUpdateWrite(c) ==
  /\ req[c].op = "brandUpdate" /\ req[c].pc = "write"
  /\ LET r == req[c] IN
     IF ~BrandFound(r.brandId)
       THEN /\ req' = [req EXCEPT ![c] =
                         Respond(r, ErrorResponse(500, "Failed to update brand"))]
            /\ UNCHANGED brands
     ELSE LET b == CHOOSE x \in brands : x.id = r.brandId
              u == BrandUpdated(b, r)
          IN IF BrandUniqueConflict(brands, u.name, u.code, r.brandId)
               THEN /\ req' = [req EXCEPT ![c] =
                                 Respond(r, ErrorResponse(500, "Failed to update brand"))]
                    /\ UNCHANGED brands
               ELSE /\ brands' = (brands \ {b}) \cup {u}
                    /\ req' = [req EXCEPT ![c] =
                                 Respond(r, [NoResponse EXCEPT !.status = 200,
                                                               !.success = TRUE])]
  /\ UNCHANGED <<journals, nextBrandId, nextJournalId, env, libs, contacts, nextId,
                 upload, runs>>

\* ----------------------------------------------- DELETE /api/brands/[id]
\* the rows an ON DELETE CASCADE of journals_brand_id_fkey and
\* email_contacts_journal_id_fkey removes with the journals of ids
CascadeContacts(rows, ids) == {k \in rows : k.journalId \in ids}

JournalsOfBrand(rows, brandId) == {j \in rows : j.brandId = brandId}

\* DELETE /api/brands/[id] arrives; part_002 120-122 up to the findUnique
BrandDeleteRequest(c, id) ==
  /\ CanStart(c)
  /\ runs' = [runs EXCEPT ![c] = @ + 1]
  /\ req' = [req EXCEPT ![c] =
               [IdleReq EXCEPT !.op = "brandDelete", !.pc = "find", !.brandId = id]]
  /\ UNCHANGED <<tree, env, libs, contacts, nextId, upload>>

\* mutant: a brand is refused only when it owns more than one journal
BrandDeleteFindOffByOne(c) ==
  /\ req[c].op = "brandDelete" /\ req[c].pc = "find"
  /\ LET r == req[c]
         count == Cardinality(JournalsOfBrand(journals, r.brandId))
     IN req' = [req EXCEPT ![c] =
                  IF ~BrandFound(r.brandId)
                    THEN Respond(r, ErrorResponse(404, "Brand not found"))
                  ELSE IF count > 1
                    THEN Respond(r, [ErrorResponse(409,
                           "Cannot delete brand with associated journals")
                             EXCEPT !.n = count])
                  ELSE [r EXCEPT !.pc = "write"]]
  /\ UNCHANGED <<tree, env, libs, contacts, nextId, upload, runs>>

\* prisma.brand.findUnique with _count.journals answers; part_002 122-144
BrandDeleteFind(c) ==
  /\ req[c].op = "brandDelete" /\ req[c].pc = "find"
  /\ LET r == req[c]
         count == Cardinality(JournalsOfBrand(journals, r.brandId))
     IN req' = [req EXCEPT ![c] =
                  IF ~BrandFound(r.brandId)
                    THEN Respond(r, ErrorResponse(404, "Brand not found"))
                  ELSE IF count > 0
                    THEN Respond(r, [ErrorResponse(409,
                           "Cannot delete brand with associated journals")
                             EXCEPT !.n = count])
                  ELSE [r EXCEPT !.pc = "write"]]
  /\ UNCHANGED <<tree, env, libs, contacts, nextId, upload, runs>>

\* prisma.brand.delete answers; part_002 144-155: the row is deleted (200)
\* and the store cascades to the journals of the brand and their contacts,
\* or the row is gone, P2025 (500)
BrandDeleteWrite(c) ==
  /\ req[c].op = "brandDelete" /\ req[c].pc = "write"
  /\ LET r == req[c]
         js == {j.id : j \in JournalsOfBrand(journals, r.brandId)}
         ks == CascadeContacts(contacts, js)
     IN IF ~BrandFound(r.brandId)
          THEN /\ req' = [req EXCEPT ![c] =
                            Respond(r, ErrorResponse(500, "Failed to delete brand"))]
               /\ UNCHANGED <<brands, journals, contacts>>
          ELSE /\ brands' = {b \in brands : b.id # r.brandId}
               /\ journals' = {j \in journals : j.id \notin js}
               /\ contacts' = contacts \ ks
               /\ req' = [req EXCEPT ![c] =
                            Respond([r EXCEPT !.goneJournals = js,
                                              !.goneContacts = {k.id : k \in ks}],
                              [NoResponse EXCEPT !.status = 200, !.success = TRUE])]
  /\ UNCHANGED <<nextBrandId, nextJournalId, env, libs, nextId, upload, runs>>

\* ----------------- POST /api/journals, PUT and DELETE /api/journals/[id]
\* POST /api/journals arrives; contacts/[id]/route.ts 269-283 up to the
\* awaited brand lookup
JournalCreateRequest(c, name, brandId) ==
  /\ CanStart(c)
  /\ runs' = [runs EXCEPT ![c] = @ + 1]
  /\ LET r == [IdleReq EXCEPT !.op = "journalCreate", !.name = name,
                              !.brandId = brandId]
     IN req' = [req EXCEPT ![c] =
                  IF falsy(name) \/ brandId = ""
                    THEN Respond(r, ErrorResponse(400, "Name and brand are required"))
                    ELSE [r EXCEPT !.pc = "brand"]]
  /\ UNCHANGED <<tree, env, libs, contacts, nextId, upload>>

\* prisma.brand.findUnique answers; contacts/[id]/route.ts 281-292
JournalCreateBrand(c) ==
  /\ req[c].op = "journalCreate" /\ req[c].pc = "brand"
  /\ req' = [req EXCEPT ![c] =
               IF ~BrandFound(req[c].brandId)
                 THEN Respond(@, ErrorResponse(400, "Invalid brand"))
                 ELSE [@ EXCEPT !.pc = "write"]]
  /\ UNCHANGED <<tree, env, libs, contacts, nextId, upload, runs>>

\* mutant: the row is inserted whether or not its brand is stored
JournalCreateWriteNoFk(c) ==
  /\ req[c].op = "journalCreate" /\ req[c].pc = "write"
  /\ journals' = journals \cup
       {JournalRow(JournalKeys[nextJournalId], req[c].name, req[c].brandId)}
  /\ nextJournalId' = nextJournalId + 1
  /\ req' = [req EXCEPT ![c] =
               Respond([@ EXCEPT !.journalId = JournalKeys[nextJournalId]],
                 [NoResponse EXCEPT !.status = 201, !.success = TRUE])]
  /\ UNCHANGED <<brands, nextBrandId, env, libs, contacts, nextId, upload, runs>>

\* prisma.journal.create answers; contacts/[id]/route.ts 292-316: the row is
\* inserted (201), or the brand is gone and journals_brand_id_fkey rejects
\* it, P2003 (500)
JournalCreateWrite(c) ==
  /\ req[c].op = "journalCreate" /\ req[c].pc = "write"
  /\ LET r == req[c] IN
     IF ~BrandFound(r.brandId)
       THEN /\ req' = [req EXCEPT ![c] =
                         Respond(r, ErrorResponse(500, "Failed to create journal"))]
            /\ UNCHANGED <<journals, nextJournalId>>
       ELSE /\ journals' = journals \cup
                 {JournalRow(JournalKeys[nextJournalId], r.name, r.brandId)}
            /\ nextJournalId' = nextJournalId + 1
            /\ req' = [req EXCEPT ![c] =
                         Respond([r EXCEPT !.journalId = JournalKeys[nextJournalId]],
                           [NoResponse EXCEPT !.status = 201, !.success = TRUE])]
  /\ UNCHANGED <<brands, nextBrandId, env, libs, contacts, nextId, upload, runs>>

\* PUT /api/journals/[id] arrives; journals/[id]/route.ts 58-73
JournalUpdateRequest(c, id, name, brandId) ==
  /\ CanStart(c)
  /\ runs' = [runs EXCEPT ![c] = @ + 1]
  /\ LET r == [IdleReq EXCEPT !.op = "journalUpdate", !.journalId = id,
                              !.name = name, !.brandId = brandId]
     IN req' = [req EXCEPT ![c] =
                  IF falsy(name) \/ brandId = ""
                    THEN Respond(r, ErrorResponse(400, "Name and brand are required"))
                    ELSE [r EXCEPT !.pc = "brand"]]
  /\ UNCHANGED <<tree, env, libs, contacts, nextId, upload>>

\* prisma.brand.findUnique answers; journals/[id]/route.ts 71-85
JournalUpdateBrand(c) ==
  /\ req[c].op = "journalUpdate" /\ req[c].pc = "brand"
  /\ req' = [req EXCEPT ![c] =
               IF ~BrandFound(req[c].brandId)
                 THEN Respond(@, ErrorResponse(400, "Invalid brand"))
                 ELSE [@ EXCEPT !.pc = "find"]]
  /\ UNCHANGED <<tree, env, libs, contacts, nextId, upload, runs>>

\* prisma.journal.findUnique answers; journals/[id]/route.ts 83-94
JournalUpdateFind(c) ==
  /\ req[c].op = "journalUpdate" /\ req[c].pc = "find"
  /\ req' = [req EXCEPT ![c] =
               IF ~JournalFound(req[c].journalId)
                 THEN Respond(@, ErrorResponse(404, "Journal not found"))
                 ELSE [@ EXCEPT !.pc = "write"]]
  /\ UNCHANGED <<tree, env, libs, contacts, nextId, upload, runs>>

\* prisma.journal.update answers; journals/[id]/route.ts 94-119: the row is
\* changed (200), or it is gone, P2025, or its new brand is gone, P2003
\* (both 500)
JournalUpdateWrite(c) ==
  /\ req[c].op = "journalUpdate" /\ req[c].pc = "write"
  /\ LET r == req[c] IN
     IF ~JournalFound(r.journalId) \/ ~BrandFound(r.brandId)
       THEN /\ req' = [req EXCEPT ![c] =
                         Respond(r, ErrorResponse(500, "Failed to update journal"))]
            /\ UNCHANGED journals
       ELSE /\ journals' =
                 {IF j.id = r.journalId
                    THEN [j EXCEPT !.name = r.name, !.brandId = r.brandId,
                                   !.status = "ACTIVE"]
                    ELSE j : j \in journals}
            /\ req' = [req EXCEPT ![c] =
                         Respond(r, [NoResponse EXCEPT !.status = 200,
                                                       !.success = TRUE])]
  /\ UNCHANGED <<brands, nextBrandId, nextJournalId, env, libs, contacts, nextId,
                 upload, runs>>

\* DELETE /api/journals/[id] arrives; journals/[id]/route.ts 132-137
JournalDeleteRequest(c, id) ==
  /\ CanStart(c)
  /\ runs' = [runs EXCEPT ![c] = @ + 1]
  /\ req' = [req EXCEPT ![c] =
               [IdleReq EXCEPT !.op = "journalDelete", !.pc = "find",
                               !.journalId = id, !.before = contacts]]
  /\ UNCHANGED <<tree, env, libs, contacts, nextId, upload>>

\* prisma.journal.findUnique answers; journals/[id]/route.ts 135-147
JournalDeleteFind(c) ==
  /\ req[c].op = "journalDelete" /\ req[c].pc = "find"
  /\ req' = [req EXCEPT ![c] =
               IF ~JournalFound(req[c].journalId)
                 THEN Respond(@, ErrorResponse(404, "Journal not found"))
                 ELSE [@ EXCEPT !.pc = "write"]]
  /\ UNCHANGED <<tree, env, libs, contacts, nextId, upload, runs>>

\* mutant: the journal row is deleted and its contacts are left behind
JournalDeleteWriteNoCascade(c) ==
  /\ req[c].op = "journalDelete" /\ req[c].pc = "write"
  /\ JournalFound(req[c].journalId)
  /\ journals' = {j \in journals : j.id # req[c].journalId}
  /\ req' = [req EXCEPT ![c] =
               Respond([@ EXCEPT !.goneJournals = {req[c].journalId}],
                 [NoResponse EXCEPT !.status = 200, !.success = TRUE])]
  /\ UNCHANGED <<brands, contacts, nextBrandId, nextJournalId, env, libs, nextId,
                 upload, runs>>

\* prisma.journal.delete answers; journals/[id]/route.ts 147-158: the row is
\* deleted (200) and the store cascades to its contacts, or the row is
\* gone, P2025 (500)
JournalDeleteWrite(c) ==
  /\ req[c].op = "journalDelete" /\ req[c].pc = "write"
  /\ LET r == req[c]
         ks == CascadeContacts(contacts, {r.journalId})
     IN IF ~JournalFound(r.journalId)
          THEN /\ req' = [req EXCEPT ![c] =
                            Respond(r, ErrorResponse(500, "Failed to delete journal"))]
               /\ UNCHANGED <<journals, contacts>>
          ELSE /\ journals' = {j \in journals : j.id # r.journalId}
               /\ contacts' = contacts \ ks
               /\ req' = [req EXCEPT ![c] =
                            Respond([r EXCEPT !.goneJournals = {r.journalId},
                                              !.goneContacts = {k.id : k \in ks}],
                              [NoResponse EXCEPT !.status = 200, !.success = TRUE])]
  /\ UNCHANGED <<brands, nextBrandId, nextJournalId, env, libs, nextId, upload, runs>>

\* ---------------------------------------------- DELETE /api/contacts/[id]
\* DELETE /api/contacts/[id] arrives; contacts/[id]/route.ts 161-167
ContactDeleteRequest(c, id) ==
  /\ CanStart(c)
  /\ runs' = [runs EXCEPT ![c] = @ + 1]
  /\ req' = [req EXCEPT ![c] =
               [IdleReq EXCEPT !.op = "contactDelete", !.pc = "find", !.id = id]]
  /\ UNCHANGED <<tree, env, libs, contacts, nextId, upload>>

\* prisma.emailContact.findUnique answers; contacts/[id]/route.ts 165-176
ContactDeleteFind(c) ==
  /\ req[c].op = "contactDelete" /\ req[c].pc = "find"
  /\ req' = [req EXCEPT ![c] =
               IF ~\E k \in contacts : k.id = req[c].id
                 THEN Respond(@, ErrorResponse(404, "Contact not found"))
                 ELSE [@ EXCEPT !.pc = "write"]]
  /\ UNCHANGED <<tree, env, libs, contacts, nextId, upload, runs>>

\* prisma.emailContact.delete answers; contacts/[id]/route.ts 176-187: the
\* row is deleted (200), or it is gone, P2025 (500)
ContactDeleteWrite(c) ==
  /\ req[c].op = "contactDelete" /\ req[c].pc = "write"
  /\ LET r == req[c] IN
     IF ~\E k \in contacts : k.id = r.id
       THEN /\ req' = [req EXCEPT ![c] =
                         Respond(r, ErrorResponse(500, "Failed to delete contact"))]
            /\ UNCHANGED contacts
       ELSE /\ contacts' = {k \in contacts : k.id # r.id}
            /\ req' = [req EXCEPT ![c] =
                         Respond([r EXCEPT !.goneContacts = {r.id}],
                           [NoResponse EXCEPT !.status = 200, !.success = TRUE])]
  /\ UNCHANGED <<tree, env, libs, nextId, upload, runs>>

\* ------------------------------------------------------- GET /api/export
\* Instants are counted in units of which a day has DayLen; zone is the
\* server's offset from UTC (local = UTC + zone) in the same units.
DayLen == 4

\* the dates a query names, the k-th being day k - 1 of the epoch
DateStrings == <<"1970-01-01", "1970-01-02", "1970-01-03">>

\* new Date(s) for a date-only string: midnight UTC of that day, or the
\* Invalid Date (<<>>) for anything else
newDate(s) ==
  IF \E k \in 1..Len(DateStrings) : DateStrings[k] = s
    THEN <<((CHOOSE k \in 1..Len(DateStrings) : DateStrings[k] = s) - 1) * DayLen>>
    ELSE <<>>

\* d.setHours(23, 59, 59, 999): the last instant of d's day on the server's
\* local clock
setHoursEndOfDay(d, z) ==
  IF d = <<>> THEN <<>>
  ELSE <<((d[1] + z) \div DayLen) * DayLen + (DayLen - 1) - z>>

\* part_012 25-51: the where clause; a bound is <<>> when absent, and
\* invalid is set when a bound is the Invalid Date
BuildWhere(startDate, endDate, journalId, brandId, z) ==
  LET gte == IF startDate # "" THEN newDate(startDate) ELSE <<>>
      lte == IF endDate # "" THEN setHoursEndOfDay(newDate(endDate), z) ELSE <<>>
  IN [gte |-> gte, lte |-> lte, journalId |-> journalId, brandId |-> brandId,
      invalid |-> (startDate # "" /\ gte = <<>>) \/ (endDate # "" /\ lte = <<>>)]

\* the rows a where clause selects; journal: { brandId } follows the
\* contact's journal
WhereRows(rows, w) ==
  { k \in rows :
      /\ (w.gte # <<>> => k.createdAt >= w.gte[1])
      /\ (w.lte # <<>> => k.createdAt <= w.lte[1])
      /\ (w.journalId # "" => k.journalId = w.journalId)
      /\ (w.brandId # "" =>
            \E j \in journals : j.id = k.journalId /\ j.brandId = w.brandId) }

\* orderBy: { createdAt: 'desc' }: the orders findMany may return rows in,
\* rows of one instant in any order
OrderedDesc(rows) ==
  { s \in [1..Cardinality(rows) -> rows] :
      /\ \A i, j \in DOMAIN s : i < j =>
           (s[i] # s[j] /\ s[i].createdAt >= s[j].createdAt) }

\* String(n) for an integer
RECURSIVE digitsOf(_)
digitsOf(n) ==
  IF n < 10 THEN <<Digits[n + 1]>>
  ELSE Append(digitsOf(n \div 10), Digits[(n % 10) + 1])

numberToString(n) == IF n < 0 THEN <<"-">> \o digitsOf(0 - n) ELSE digitsOf(n)

ExportColumns == <<NameH, EmailH, PhoneH, TitleH, YearH>>

\* part_012 88-94: the cells of one contact, || '' turning null (and 0)
\* into the empty string
csvData(k) ==
  << k.name, k.email,
     IF k.phone = <<>> THEN <<>> ELSE k.phone[1],
     IF k.articleTitle = <<>> THEN <<>> ELSE k.articleTitle[1],
     IF k.year = <<>> \/ k.year[1] = 0 THEN <<>> ELSE numberToString(k.year[1]) >>

\* Papa.unparse(data, { header: true, columns }): the lines of the document,
\* each the tuple of its cells. An empty array is serialised without fields,
\* whatever columns says; otherwise the header is columns or, without it,
\* the keys of the first object.
unparse(data, keys, columns) ==
  LET fields == IF Len(data) = 0 THEN <<>>
                ELSE IF columns # <<>> THEN columns ELSE keys
  IN (IF fields # <<>> THEN <<fields>> ELSE <<>>) \o data

\* new NextResponse(csv, { status: 200, 'Content-Type': 'text/csv' })
CsvResponse(lines, n) ==
  [NoResponse EXCEPT !.status = 200, !.success = TRUE, !.csv = lines, !.n = n]

\* GET /api/export arrives; part_012 16-53 up to findMany
ExportRequest(c, startDate, endDate, journalId, brandId) ==
  /\ CanStart(c)
  /\ runs' = [runs EXCEPT ![c] = @ + 1]
  /\ req' = [req EXCEPT ![c] =
               [IdleReq EXCEPT !.op = "export", !.pc = "query",
                               !.startDate = startDate, !.endDate = endDate,
                               !.journalId = journalId, !.brandId = brandId,
                               !.where = BuildWhere(startDate, endDate,
                                                    journalId, brandId, zone)]]
  /\ UNCHANGED <<tree, env, libs, contacts, nextId, upload>>

\* prisma.emailContact.findMany answers; part_012 54-110: the document of
\* the rows found, or 500 when the query was rejected for an Invalid Date
ExportQuery(c) ==
  /\ req[c].op = "export" /\ req[c].pc = "query"
  /\ LET r == req[c] IN
     IF r.where.invalid
       THEN req' = [req EXCEPT ![c] =
                      Respond(r, ErrorResponse(500, "Failed to export contacts"))]
       ELSE \E s \in OrderedDesc(WhereRows(contacts, r.where)) :
              LET data == [i \in DOMAIN s |-> csvData(s[i])]
                  csv == IF Len(s) = 0
                           THEN unparse(<<>>, <<>>, ExportColumns)
                           ELSE unparse(data, ExportColumns, <<>>)
              IN req' = [req EXCEPT ![c] =
                           Respond([r EXCEPT !.atQuery = contacts,
                                             !.found = [i \in DOMAIN s |-> s[i].id]],
                                   CsvResponse(csv, Len(s)))]
  /\ UNCHANGED <<tree, env, libs, contacts, nextId, upload, runs>>

\* ---------------------------------------------------- GET /api/analytics
\* The calendar: the number of the first day of each month, months counted
\* from 1; the server's local clock decides which month an instant is in.
MonthStartDay == <<0, 3, 5, 8, 11, 13, 16, 19, 22, 24, 27, 30>>

\* now.getMonth() (with getFullYear()): the month of instant t in zone z
getMonth(t, z) ==
  CHOOSE k \in 1..(Len(MonthStartDay) - 1) :
    /\ MonthStartDay[k] * DayLen <= t + z
    /\ t + z < MonthStartDay[k + 1] * DayLen

\* new Date(year, month, day, 0, 0, 0, 0) + ticks: local midnight of the
\* day-th day of month k, days below 1 or beyond the month rolling over
newDateLocal(k, day, ticks, z) ==
  (MonthStartDay[k] + day - 1) * DayLen + ticks - z

\* mutant: the previous month ends at the midnight that begins its last day
DateRangesShortMonth(t, z) ==
  LET k == getMonth(t, z)
      day == ((t + z) \div DayLen) - MonthStartDay[k] + 1
      tod == (t + z) % DayLen
  IN [now |-> t,
      weekAgo |-> t - 7 * DayLen,
      sixMonthsAgo |-> newDateLocal(k - 6, day, tod, z),
      currentMonthStart |-> newDateLocal(k, 1, 0, z),
      lastMonthStart |-> newDateLocal(k - 1, 1, 0, z),
      lastMonthEnd |-> newDateLocal(k, 0, 0, z)]

\* part_015 19-29: the instants derived from now
DateRanges(t, z) ==
  LET k == getMonth(t, z)
      day == ((t + z) \div DayLen) - MonthStartDay[k] + 1
      tod == (t + z) % DayLen
  IN [now |-> t,
      weekAgo |-> t - 7 * DayLen,
      sixMonthsAgo |-> newDateLocal(k - 6, day, tod, z),
      currentMonthStart |-> newDateLocal(k, 1, 0, z),
      lastMonthStart |-> newDateLocal(k - 1, 1, 0, z),
      lastMonthEnd |-> newDateLocal(k, 0, DayLen - 1, z)]

AnalyticsQueries ==
  {"totalContacts", "totalJournals", "activeJournals", "thisWeekCount",
   "currentMonthCount", "lastMonthCount", "brands", "journals", "emailsByMonth"}

\* the names of rows in ascending order, character by character in the
\* order of Digits, UpperChars, LowerChars
nameBefore(a, b) ==
  LET abc == Digits \o UpperChars \o LowerChars
      pos(ch) == CHOOSE i \in 1..Len(abc) : abc[i] = ch
      n == IF Len(a) < Len(b) THEN Len(a) ELSE Len(b)
  IN \/ \E i \in 1..n : /\ \A j \in 1..(i - 1) : a[j] = b[j]
                        /\ pos(a[i]) < pos(b[i])
     \/ (Len(a) < Len(b) /\ \A j \in 1..n : a[j] = b[j])

\* findMany({ orderBy: { name: 'asc' } }): the orders the store may return
\* the rows in, rows of one name in any order
RECURSIVE OrderedByName(_)
OrderedByName(rows) ==
  IF rows = {} THEN {<<>>}
  ELSE UNION { {<<m>> \o t : t \in OrderedByName(rows \ {m})} :
               m \in {x \in rows : ~\E y \in rows : nameBefore(y.name, x.name)} }

\* groupBy({ by: ['createdAt'], _count, where: { createdAt: { gte } },
\* orderBy: { createdAt: 'asc' } })
RECURSIVE groupByCreatedAt(_, _)
groupByCreatedAt(rows, gte) ==
  LET in == {k \in rows : k.createdAt >= gte} IN
  IF in = {} THEN <<>>
  ELSE LET t == CHOOSE x \in {k.createdAt : k \in in} :
                  \A k \in in : x <= k.createdAt
       IN <<[createdAt |-> t,
             count |-> Cardinality({k \in in : k.createdAt = t})]>>
          \o groupByCreatedAt({k \in in : k.createdAt > t}, t)

\* one query of Promise.all answered from the tables as they are: the
\* locals with its result
QueryResult(a, q, order) ==
  CASE q = "totalContacts" -> [a EXCEPT !.totalContacts = Cardinality(contacts)]
    [] q = "totalJournals" -> [a EXCEPT !.totalJournals = Cardinality(journals)]
    [] q = "activeJournals" ->
         [a EXCEPT !.activeJournals =
                     Cardinality({j \in journals : j.status = "ACTIVE"})]
    [] q = "thisWeekCount" ->
         [a EXCEPT !.thisWeekCount =
                     Cardinality({k \in contacts : k.createdAt >= a.weekAgo})]
    [] q = "currentMonthCount" ->
         [a EXCEPT !.currentMonthCount =
                     Cardinality({k \in contacts :
                                    k.createdAt >= a.currentMonthStart})]
    [] q = "lastMonthCount" ->
         [a EXCEPT !.lastMonthCount =
                     Cardinality({k \in contacts :
                                    /\ k.createdAt >= a.lastMonthStart
                                    /\ k.createdAt <= a.lastMonthEnd})]
    [] q = "brands" ->
         [a EXCEPT !.brands =
            [i \in DOMAIN order |->
               [id |-> order[i].id, name |-> order[i].name,
                code |-> order[i].code, status |-> order[i].status,
                journals |-> Cardinality(JournalsOfBrand(journals, order[i].id))]]]
    [] q = "journals" ->
         [a EXCEPT !.journals =
            [i \in DOMAIN order |->
               [id |-> order[i].id, name |-> order[i].name,
                brandId |-> order[i].brandId, status |-> order[i].status,
                brand |-> (CHOOSE b \in brands : b.id = order[i].brandId).name,
                contacts |-> Cardinality({k \in contacts :
                                            k.journalId = order[i].id})]]]
    [] q = "emailsByMonth" ->
         [a EXCEPT !.emailsByMonth = groupByCreatedAt(contacts, a.sixMonthsAgo)]

\* mutant: acc[key] = n
addToOverwrite(acc, key, n) ==
  IF \E i \in DOMAIN acc : acc[i].name = key
    THEN [i \in DOMAIN acc |->
            IF acc[i].name = key THEN [acc[i] EXCEPT !.value = n] ELSE acc[i]]
    ELSE Append(acc, [name |-> key, value |-> n])

\* acc[key] += n of the two reduce calls (part_015 116-142): the entries of
\* the object in the order their keys were first set
addTo(acc, key, n) ==
  IF \E i \in DOMAIN acc : acc[i].name = key
    THEN [i \in DOMAIN acc |->
            IF acc[i].name = key THEN [acc[i] EXCEPT !.value = @ + n] ELSE acc[i]]
    ELSE Append(acc, [name |-> key, value |-> n])

\* part_015 116-126: contacts per brand name, over the journals
RECURSIVE brandData(_, _)
brandData(acc, js) ==
  IF js = <<>> THEN acc
  ELSE brandData(addTo(acc, Head(js).brand, Head(js).contacts), Tail(js))

\* part_015 129-142: contacts per month label, over the groups
RECURSIVE monthlyData(_, _, _)
monthlyData(acc, groups, z) ==
  IF groups = <<>> THEN acc
  ELSE monthlyData(addTo(acc, getMonth(Head(groups).createdAt, z),
                         Head(groups).count),
                   Tail(groups), z)

\* journals.sort((a, b) => b._count.contacts - a._count.contacts): the
\* array after the stable sort, which sorts it in place
RECURSIVE sortByContacts(_, _)
sortByContacts(sorted, js) ==
  IF js = <<>> THEN sorted
  ELSE LET x == Head(js)
           keep(y) == y.contacts >= x.contacts
           rest(y) == y.contacts < x.contacts
       IN sortByContacts(SelectSeq(sorted, keep) \o <<x>> \o SelectSeq(sorted, rest),
                         Tail(js))

\* mutant: the first five journals of the listing, whatever their counts
topJournalsUnsorted(js) ==
  LET byName == CHOOSE o \in OrderedByName({js[i] : i \in DOMAIN js}) : TRUE IN
  [i \in 1..(IF Len(js) < 5 THEN Len(js) ELSE 5) |->
     [name |-> byName[i].name, emails |-> byName[i].contacts,
      brand |-> byName[i].brand]]

\* .slice(0, 5).map(...)
topJournals(js) ==
  [i \in 1..(IF Len(js) < 5 THEN Len(js) ELSE 5) |->
     [name |-> js[i].name, emails |-> js[i].contacts, brand |-> js[i].brand]]

\* JavaScript numbers are IEEE 754 doubles. A positive double is modelled as
\* [m, e]: m its 53 significand bits, most significant first and m[1] = 1,
\* e the exponent of m[1]; its value is the sum of m[i] * 2^(e + 1 - i).

\* the double nearest to a positive binary number (ties to even): bits are
\* its leading digits from a 1 of exponent e on, sticky tells whether
\* nonzero digits follow them
roundToDouble(bits, sticky, e) ==
  LET zero == <<0, 0, 0, 0, 0, 0, 0, 0, 0, 0, 0, 0, 0, 0, 0, 0, 0, 0,
                0, 0, 0, 0, 0, 0, 0, 0, 0, 0, 0, 0, 0, 0, 0, 0, 0, 0,
                0, 0, 0, 0, 0, 0, 0, 0, 0, 0, 0, 0, 0, 0, 0, 0, 0, 0>>
      w == IF Len(bits) >= 54 THEN bits
           ELSE bits \o SubSeq(zero, 1, 54 - Len(bits))
      keep == SubSeq(w, 1, 53)
      more == sticky \/ \E i \in 55..Len(w) : w[i] = 1
      up == w[54] = 1 /\ (more \/ keep[53] = 1)
      zeros == {i \in 1..53 : keep[i] = 0}
      last == CHOOSE i \in zeros : \A j \in zeros : j <= i
  IN IF ~up THEN [m |-> keep, e |-> e]
     ELSE IF zeros = {} THEN [m |-> <<1>> \o SubSeq(zero, 1, 52), e |-> e + 1]
     ELSE [m |-> SubSeq(keep, 1, last - 1) \o <<1>> \o SubSeq(zero, 1, 53 - last),
           e |-> e]

\* n / d for integers n, d > 0: the first 54 binary digits of the quotient,
\* digit i being floor(2 * ((n * 2^(i-1)) mod d) / d), then rounded
divide(n, d) ==
  LET RECURSIVE scale(_, _, _)
      scale(a, b, e) == IF a >= 2 * b THEN scale(a, 2 * b, e + 1)
                        ELSE IF a < b THEN scale(2 * a, b, e - 1)
                        ELSE [n |-> a, d |-> b, e |-> e]
      s == scale(n, d, 0)
      RECURSIVE pow2mod(_)
      pow2mod(k) ==
        IF k = 0 THEN 1 % s.d
        ELSE LET h == pow2mod(k \div 2)
             IN (((h * h) % s.d) * (IF k % 2 = 1 THEN 2 ELSE 1)) % s.d
      rem(k) == ((s.n % s.d) * pow2mod(k)) % s.d
      q == [i \in 1..54 |-> IF i = 1 THEN 1 ELSE (2 * rem(i - 2)) \div s.d]
  IN roundToDouble(q, rem(53) # 0, s.e)

\* x * 100 for a positive double x: the exact product, computed on the
\* significand in three limbs of 17, 18 and 18 digits, then rounded
times100(x) ==
  LET RECURSIVE toInt(_, _)
      toInt(from, to) ==
        IF to < from THEN 0 ELSE 2 * toInt(from, to - 1) + x.m[to]
      t3 == toInt(36, 53) * 100
      t2 == toInt(18, 35) * 100 + (t3 \div 262144)
      t1 == toInt(1, 17) * 100 + (t2 \div 262144)
      width == IF t1 >= 8388608 THEN 24 ELSE 23
      p == [i \in 1..(width + 36) |->
              IF i <= width THEN (t1 \div (2 ^ (width - i))) % 2
              ELSE IF i <= width + 18
                THEN ((t2 % 262144) \div (2 ^ (width + 18 - i))) % 2
              ELSE ((t3 % 262144) \div (2 ^ (width + 36 - i))) % 2]
  IN roundToDouble(p, FALSE, x.e - 52 + Len(p) - 1)

\* Math.round of the double x, or of -x when negative is set: the nearest
\* integer, the one towards +Infinity of two equally near
mathRound(x, negative) ==
  LET RECURSIVE toInt(_)
      toInt(b) == IF b = <<>> THEN 0
                  ELSE 2 * toInt(SubSeq(b, 1, Len(b) - 1)) + b[Len(b)]
      int == IF x.e < 0 THEN 0 ELSE toInt(SubSeq(x.m, 1, x.e + 1))
      half == x.e >= -1 /\ x.e + 2 <= 53 /\ x.m[x.e + 2] = 1
      rest == \E i \in 1..53 : i > x.e + 2 /\ x.m[i] = 1
  IN IF negative THEN 0 - (int + (IF half /\ rest THEN 1 ELSE 0))
     ELSE int + (IF half THEN 1 ELSE 0)

\* part_015 155-157
percentChange(currentMonthCount, lastMonthCount) ==
  IF lastMonthCount > 0
    THEN IF currentMonthCount = lastMonthCount THEN 0
         ELSE IF currentMonthCount > lastMonthCount
           THEN mathRound(times100(divide(currentMonthCount - lastMonthCount,
                                          lastMonthCount)), FALSE)
         ELSE mathRound(times100(divide(lastMonthCount - currentMonthCount,
                                        lastMonthCount)), TRUE)
    ELSE 0

\* part_015 115-189: the document built from the nine results
AnalyticsBody(a, z) ==
  LET sorted == sortByContacts(<<>>, a.journals) IN
  [totalContacts |-> a.totalContacts,
   totalJournals |-> a.totalJournals,
   activeJournals |-> a.activeJournals,
   thisWeekCount |-> a.thisWeekCount,
   percentChange |-> percentChange(a.currentMonthCount, a.lastMonthCount),
   brandData |-> brandData(<<>>, a.journals),
   monthlyData |-> monthlyData(<<>>, a.emailsByMonth, z),
   topJournals |-> topJournals(sorted),
   brands |-> a.brands,
   journals |-> sorted]

\* GET /api/analytics arrives; part_015 16-42: the instants are computed and
\* the nine queries are issued together
AnalyticsRequest(c) ==
  /\ CanStart(c)
  /\ runs' = [runs EXCEPT ![c] = @ + 1]
  /\ req' = [req EXCEPT ![c] =
               [IdleReq EXCEPT
                  !.op = "analytics", !.pc = "query",
                  !.an = [NoAnalytics EXCEPT
                            !.now = now,
                            !.weekAgo = DateRanges(now, zone).weekAgo,
                            !.sixMonthsAgo = DateRanges(now, zone).sixMonthsAgo,
                            !.currentMonthStart = DateRanges(now, zone).currentMonthStart,
                            !.lastMonthStart = DateRanges(now, zone).lastMonthStart,
                            !.lastMonthEnd = DateRanges(now, zone).lastMonthEnd,
                            !.pending = AnalyticsQueries,
                            !.read = [q \in AnalyticsQueries |-> {}]]]]
  /\ UNCHANGED <<tree, env, libs, contacts, nextId, upload>>

\* one of the nine queries answers; after the last one part_015 115-189
\* builds the response
AnalyticsQuery(c, q) ==
  /\ req[c].op = "analytics" /\ req[c].pc = "query"
  /\ q \in req[c].an.pending
  /\ \E order \in (IF q = "brands" THEN OrderedByName(brands)
                   ELSE IF q = "journals" THEN OrderedByName(journals)
                   ELSE {<<>>}) :
       LET a == [QueryResult(req[c].an, q, order) EXCEPT
                   !.pending = @ \ {q},
                   !.read[q] = IF q \in {"totalJournals", "activeJournals", "brands"}
                                 THEN {} ELSE contacts]
           r == [req[c] EXCEPT !.an = a]
       IN req' = [req EXCEPT ![c] =
                    IF a.pending # {} THEN r
                    ELSE Respond(r, [NoResponse EXCEPT
                                       !.status = 200, !.success = TRUE,
                                       !.body = AnalyticsBody(a, zone)])]
  /\ UNCHANGED <<tree, env, libs, contacts, nextId, upload, runs>>

\* ------------------------------------------- lib/prisma-dynamic.ts, clients
\* prisma-dynamic.ts 13
MAX_CLIENTS == 10

\* database URLs are numbered from 1; 0 is the empty string that
\* getDatabaseUrlFromRequest returns without header and DATABASE_URL
MaxUrls == 11
\* PrismaClient instances constructed in one run
MaxCreated == 12

\* the entries of the Map whose key is url
Cached(url) == {i \in DOMAIN prismaClients : prismaClients[i].url = url}

\* the URLs of recent without url, then url: url is the most recently used
Touch(recent, url) == SelectSeq(recent, LAMBDA u : u # url) \o <<url>>

\* prisma-dynamic.ts 36-41: prismaClients.delete(firstKey), the first key in
\* the Map's iteration order, which is insertion order
Evict(clients) == Tail(clients)

\* a route written as the guide shows (MULTI_DATABASE_GUIDE.md 132-138) calls
\* getPrismaForRequest (request-helpers.ts 17-20), which calls getPrismaClient
\* (prisma-dynamic.ts 20-55) with the request's URL, and goes on to await
\* prisma.brand.findMany()
GetPrismaForRequest(c, url) ==
  /\ req[c].pc \in {"idle", "done"}
  /\ url \in 0..MaxUrls
  /\ IF url = 0
       THEN /\ req' = [req EXCEPT ![c] =
                         Respond([IdleReq EXCEPT !.op = "query"],
                                 ErrorResponse(500, "Database URL is required"))]
            /\ UNCHANGED <<prismaClients, disconnected, poolLog>>
     ELSE IF Cached(url) # {}
       THEN /\ req' = [req EXCEPT ![c] =
                         [IdleReq EXCEPT
                            !.op = "query", !.pc = "findMany",
                            !.prisma = prismaClients[CHOOSE i \in Cached(url) : TRUE].client]]
            /\ poolLog' = [poolLog EXCEPT !.recent = Touch(@, url)]
            /\ UNCHANGED <<prismaClients, disconnected>>
     ELSE /\ poolLog.created < MaxCreated
          /\ LET full == Len(prismaClients) >= MAX_CLIENTS
                 kept == IF full THEN Evict(prismaClients) ELSE prismaClients
                 gone == IF full
                           THEN {e \in {prismaClients[i] : i \in DOMAIN prismaClients} :
                                   \A i \in DOMAIN kept : kept[i] # e}
                           ELSE {}
                 client == poolLog.created + 1
             IN /\ prismaClients' = Append(kept, [url |-> url, client |-> client])
                /\ disconnected' = disconnected \cup {e.client : e \in gone}
                /\ poolLog' =
                     [created |-> client,
                      urls |-> IF url > poolLog.urls THEN url ELSE poolLog.urls,
                      recent |-> Touch(SelectSeq(poolLog.recent,
                                                 LAMBDA u : \A e \in gone : e.url # u),
                                       url),
                      evicted |-> IF full
                                    THEN <<[urls |-> {e.url : e \in gone},
                                            lru |-> Head(poolLog.recent)]>>
                                    ELSE poolLog.evicted]
                /\ req' = [req EXCEPT ![c] =
                             [IdleReq EXCEPT
                                !.op = "query", !.pc = "findMany",
                                !.prisma = client]]
  /\ UNCHANGED <<tree, env, contacts, nextId, upload, runs, provider, fetches>>

\* await prisma.brand.findMany() returns and the route answers
PrismaQueryDone(c) ==
  /\ req[c].op = "query" /\ req[c].pc = "findMany"
  /\ req' = [req EXCEPT ![c] =
               Respond(req[c], [NoResponse EXCEPT !.status = 200, !.success = TRUE])]
  /\ UNCHANGED <<tree, env, libs, contacts, nextId, upload, runs>>

\* ------------------------------------------------- export, then import
\* the text Papa.unparse makes of the lines: cells joined by commas, lines by
\* "\r\n"; a cell holding a comma, a quote or a line break, or starting or
\* ending with a blank, is put in quotes with its quotes doubled
csvText(lines) ==
  LET RECURSIVE escapeQuotes(_)
      escapeQuotes(s) ==
        IF s = <<>> THEN <<>>
        ELSE (IF Head(s) = "\"" THEN <<"\"", "\"">> ELSE <<Head(s)>>)
               \o escapeQuotes(Tail(s))
      quoteField(s) ==
        IF s # <<>> /\ (\/ \E i \in 1..Len(s) : s[i] \in {",", "\"", "\r", "\n"}
                        \/ s[1] = " " \/ s[Len(s)] = " ")
          THEN <<"\"">> \o escapeQuotes(s) \o <<"\"">>
          ELSE s
      RECURSIVE line(_)
      line(cells) ==
        IF cells = <<>> THEN <<>>
        ELSE quoteField(Head(cells))
               \o (IF Len(cells) = 1 THEN <<>> ELSE <<",">> \o line(Tail(cells)))
      RECURSIVE join(_)
      join(ls) ==
        IF ls = <<>> THEN <<>>
        ELSE line(Head(ls))
               \o (IF Len(ls) = 1 THEN <<>> ELSE <<"\r", "\n">> \o join(Tail(ls)))
  IN join(lines)

\* Papa.parse(text, { header: true, skipEmptyLines: true }) of a file the
\* browser submits: lines end at "\r\n" and cells at commas outside quotes,
\* quoted cells lose their quotes, empty lines are dropped, the first line
\* names the fields, and a row with more or fewer cells is a parse error
papaParse(text) ==
  LET Outside(s, i) == Cardinality({j \in 1..(i - 1) : s[j] = "\""}) % 2 = 0
      SplitAt(s, P, w) ==
        LET n == Cardinality(P)
            kth(k) == CHOOSE p \in P : Cardinality({r \in P : r < p}) = k - 1
        IN [k \in 1..(n + 1) |->
              SubSeq(s, IF k = 1 THEN 1 ELSE kth(k - 1) + w,
                        IF k = n + 1 THEN Len(s) ELSE kth(k) - 1)]
      Unquote(c) ==
        IF c # <<>> /\ c[1] = "\""
          THEN LET inner == SubSeq(c, 2, Len(c) - 1)
                   keep == {j \in 1..Len(inner) :
                              ~(inner[j] = "\""
                                /\ Cardinality({m \in 1..j : inner[m] = "\""}) % 2 = 0)}
               IN IF keep = {} THEN <<>>
                  ELSE [k \in 1..Cardinality(keep) |->
                          inner[CHOOSE j \in keep :
                                  Cardinality({m \in keep : m < j}) = k - 1]]
          ELSE c
      Cells(l) ==
        LET c == SplitAt(l, {i \in 1..Len(l) : l[i] = "," /\ Outside(l, i)}, 1)
        IN [k \in 1..Len(c) |-> Unquote(c[k])]
      all == SplitAt(text, {i \in 1..(Len(text) - 1) :
                              /\ text[i] = "\r" /\ text[i + 1] = "\n"
                              /\ Outside(text, i)}, 2)
      lines == SelectSeq(all, LAMBDA l : l # <<>>)
      headers == IF lines = <<>> THEN <<>> ELSE Cells(lines[1])
      rows == IF Len(lines) < 2 THEN <<>>
              ELSE [k \in 1..(Len(lines) - 1) |-> Cells(lines[k + 1])]
  IN [file |-> TRUE, fileName |-> <<"e", ".", "c", "s", "v">>, size |-> Len(text),
      parseErrors |-> Cardinality({k \in 1..Len(rows) : Len(rows[k]) # Len(headers)}),
      headers |-> headers, rows |-> rows]

\* the user submits the document an export returned as the file of an import
Reupload(c) ==
  /\ req[c].op = "export" /\ req[c].pc = "done" /\ req[c].resp.status = 200
  /\ ~upload[c].file
  /\ upload' = [upload EXCEPT ![c] = papaParse(csvText(req[c].resp.csv))]
  /\ UNCHANGED <<tree, env, libs, contacts, nextId, runs, req>>

\* ------------------------------------------ DataProvider and the brands page
\* GET /api/analytics answered over the store as it is: part_015 16-189 with
\* its nine queries reading one state of the tables; ob and oj are the
\* orders the two listings come back in
AnalyticsAnswer(ob, oj) ==
  LET d == DateRanges(now, zone)
      a0 == [NoAnalytics EXCEPT
               !.now = now, !.weekAgo = d.weekAgo,
               !.sixMonthsAgo = d.sixMonthsAgo,
               !.currentMonthStart = d.currentMonthStart,
               !.lastMonthStart = d.lastMonthStart,
               !.lastMonthEnd = d.lastMonthEnd]
      a1 == QueryResult(a0, "totalContacts", <<>>)
      a2 == QueryResult(a1, "totalJournals", <<>>)
      a3 == QueryResult(a2, "activeJournals", <<>>)
      a4 == QueryResult(a3, "thisWeekCount", <<>>)
      a5 == QueryResult(a4, "currentMonthCount", <<>>)
      a6 == QueryResult(a5, "lastMonthCount", <<>>)
      a7 == QueryResult(a6, "brands", ob)
      a8 == QueryResult(a7, "journals", oj)
      a9 == QueryResult(a8, "emailsByMonth", <<>>)
  IN AnalyticsBody(a9, zone)

\* part_002 283-291: the entry written under app_stats_cache
CachedData(body, timestamp) ==
  [brands |-> body.brands, journals |-> body.journals,
   emailCount |-> body.totalContacts, thisWeekCount |-> body.thisWeekCount,
   percentChange |-> body.percentChange, monthlyData |-> body.monthlyData,
   timestamp |-> timestamp]

\* brands/page.tsx 76-108 (handleSubmit) and 124-151 (confirmDelete) after a
\* response with response.ok: the page calls fetchStats(), which runs up to
\* its await: setLoading(true) and the GET is sent (part_002 263-267)
BrandsPageSaved(c) ==
  /\ req[c].op \in {"brandCreate", "brandUpdate", "brandDelete"}
  /\ req[c].pc = "done"
  /\ req[c].resp.status \in 200..299
  /\ req' = [req EXCEPT ![c].pc = "idle"]
  /\ provider' = [provider EXCEPT !.loading = TRUE]
  /\ fetches' = Append(fetches, [pc |-> "sent", body |-> NoBody])
  /\ UNCHANGED <<tree, env, contacts, nextId, upload, runs,
                 prismaClients, disconnected, poolLog>>

\* the server answers the GET of the i-th fetchStats call
FetchStatsServe(i) ==
  /\ i \in DOMAIN fetches
  /\ fetches[i].pc = "sent"
  /\ \E ob \in OrderedByName(brands), oj \in OrderedByName(journals) :
       fetches' = [fetches EXCEPT ![i] =
                     [pc |-> "answered", body |-> AnalyticsAnswer(ob, oj)]]
  /\ UNCHANGED <<tree, env, contacts, nextId, upload, runs, req,
                 prismaClients, disconnected, poolLog, provider>>

\* the response of the i-th call arrives and the call runs to its end;
\* part_002 268-311: the setters, the localStorage entry, setLoading(false)
FetchStatsResolve(i) ==
  /\ i \in DOMAIN fetches
  /\ fetches[i].pc = "answered"
  /\ fetches' = [fetches EXCEPT ![i].pc = "done"]
  /\ provider' = [brands |-> fetches[i].body.brands,
                  journals |-> fetches[i].body.journals,
                  emailCount |-> fetches[i].body.totalContacts,
                  loading |-> FALSE,
                  lastFetched |-> <<now>>,
                  storage |-> <<CachedData(fetches[i].body, now)>>]
  /\ UNCHANGED <<tree, env, contacts, nextId, upload, runs, req,
                 prismaClients, disconnected, poolLog>>

\* ----------------------------------------------------------------- inputs
Mail(ch) == <<ch, "@", "x", ".", "y">>

StdHeaders == <<NameH, EmailH, YearH>>

SeqsUpTo(S, n) == UNION {[1..k -> S] : k \in 0..n}

\* a well-formed upload: a .csv file within the size limit that Papa.parse
\* reads without errors
Csv(headers, rows) ==
  [file |-> TRUE, fileName |-> <<"f",".","c","s","v">>, size |-> 1,
   parseErrors |-> 0, headers |-> headers, rows |-> rows]

NoUpload ==
  [file |-> FALSE, fileName |-> <<>>, size |-> 0, parseErrors |-> 0,
   headers |-> <<>>, rows |-> <<>>]

\* rows <<name, email, year>> for duplicate handling and row errors: the
\* second names the e-mail of the first in another case and with blanks
DupRows ==
  { <<<<"A">>, Mail("a"), <<>>>>,
    <<<<"B">>, <<" ","A","@","X",".","y"," ">>, <<"2","0","0","0">>>>,
    <<<<"A">>, Mail("b"), <<>>>>,
    <<<<" ">>, Mail("c"), <<"1","8","5","0">>>>,
    <<<<"A">>, <<" ">>, <<>>>> }

YearStrings ==
  { <<>>, <<" ">>, <<"1","9","0","0">>, <<"2","1","0","0">>,
    <<"1","8","9","9">>, <<"2","1","0","1">>, <<"a","b","c">>,
    <<" ","2","0","2","3"," ">>, <<"2","0","2","3","a">>, <<"-","5">> }

YearRows == { <<<<"A">>, Mail("a"), y>> : y \in YearStrings }

HeaderLists ==
  { StdHeaders,
    << <<" ","N","a","m","e">>, <<"E","M","A","I","L"," ">>, PhoneH >>,
    << NameH, YearH >>,
    << <<"E","m","a","i","l">> >>,
    << PhoneH, TitleH >> }

FileNames ==
  { <<"f",".","c","s","v">>, <<"f",".","C","S","V">>, <<"c","s","v">>,
    <<"f",".","c","s","v",".","t","x","t">> }

\* a row of one cell per header, every cell the same text
FillRow(headers, cell) == [k \in 1..Len(headers) |-> cell]

StructUploads ==
  {NoUpload} \cup
  { [file |-> TRUE, fileName |-> f, size |-> z, parseErrors |-> pe,
     headers |-> h, rows |-> [k \in 1..n |-> FillRow(h, Mail("a"))]] :
      f \in FileNames, z \in {maxSize, maxSize + 1}, pe \in {0, 1},
      h \in HeaderLists, n \in 0..MaxRows }

\* a stored contact as an earlier import or contact form left it
Stored(id, ch, journalId) ==
  [id |-> id, name |-> <<"Z">>, email |-> Mail(ch), phone |-> <<>>,
   articleTitle |-> <<>>, year |-> <<>>, journalId |-> journalId,
   createdAt |-> 0]

\* DataProvider before its first fetch (part_002 243-247) over an empty
\* localStorage
NoProvider ==
  [brands |-> <<>>, journals |-> <<>>, emailCount |-> 0, loading |-> FALSE,
   lastFetched |-> <<>>, storage |-> <<>>]

\* prisma-dynamic.ts 10: an empty Map; nothing constructed or requested yet
InitLibs ==
  /\ prismaClients = <<>>
  /\ disconnected = {}
  /\ poolLog = [created |-> 0, urls |-> 0, recent |-> <<>>, evicted |-> <<>>]
  /\ provider = NoProvider
  /\ fetches = <<>>

InitStores ==
  { {}, {Stored(1, "a", "J1")}, {Stored(1, "a", "J2")},
    {Stored(1, "a", "J1"), Stored(2, "b", "J1")} }

JournalIds == {"J1", "J2"}

\* the brands and journals an administrator has set up: one journal each
InitBrands ==
  { BrandRow("B1", <<"A","c","m","e">>, <<"A","C">>),
    BrandRow("B2", <<"B","e","t","a">>, <<"B","T">>) }

InitJournals ==
  { JournalRow("J1", <<"J","1">>, "B1"), JournalRow("J2", <<"J","2">>, "B2") }

\* the journalId form field: a stored journal, an unknown id, or none
JournalInputs == JournalIds \cup {"J9", ""}

InitCommon ==
  /\ brands = InitBrands
  /\ journals = InitJournals
  /\ nextBrandId = 3
  /\ nextJournalId = 3
  /\ now = 0
  /\ zone = 0
  /\ InitLibs
  /\ runs = [c \in Clients |-> 0]
  /\ req = [c \in Clients |-> IdleReq]

\* one client, one file, requests one after the other
InitSeq ==
  /\ InitCommon
  /\ \/ /\ contacts \in InitStores
        /\ \E rows \in SeqsUpTo(DupRows, MaxRows) :
             upload = [c \in Clients |-> IF c = 1 THEN Csv(StdHeaders, rows)
                                         ELSE NoUpload]
     \/ /\ contacts = {}
        /\ \E rows \in SeqsUpTo(YearRows, MaxRows) :
             upload = [c \in Clients |-> IF c = 1 THEN Csv(StdHeaders, rows)
                                         ELSE NoUpload]
     \/ /\ contacts = {}
        /\ \E u \in StructUploads :
             upload = [c \in Clients |-> IF c = 1 THEN u ELSE NoUpload]
  /\ nextId = Cardinality(contacts) + 1

NextSeq ==
  \/ \E j \in JournalInputs : ImportRequest(1, j)
  \/ ImportLookup(1)
  \/ ImportBatch(1)

SpecSeq == InitSeq /\ [][NextSeq]_vars


\* valid rows with three e-mails, for files of several batches
BatchRows ==
  { <<<<"A">>, Mail("a"), <<>>>>, <<<<"A">>, Mail("b"), <<>>>>,
    <<<<"A">>, Mail("c"), <<>>>> }

\* one client, one file of up to MaxRows + 2 rows, a store that may fail at
\* any call
InitFault ==
  /\ InitCommon
  /\ contacts = {}
  /\ nextId = 1
  /\ \E rows \in SeqsUpTo(BatchRows, MaxRows + 2) :
       upload = [c \in Clients |-> IF c = 1 THEN Csv(StdHeaders, rows)
                                   ELSE NoUpload]

NextFault ==
  \/ \E j \in JournalIds : ImportRequest(1, j)
  \/ ImportLookup(1)
  \/ ImportLookupFail(1)
  \/ ImportBatch(1)
  \/ ImportBatchFail(1)

SpecFault == InitFault /\ [][NextFault]_vars

\* valid rows with two e-mails, one of them in two spellings
ConcRows ==
  { <<<<"A">>, Mail("a"), <<>>>>,
    <<<<"B">>, <<"A","@","x",".","y">>, <<>>>>,
    <<<<"A">>, Mail("b"), <<>>>> }

\* the e-mail field of the contact form: valid, valid in upper case, not an
\* address
FormEmails == { Mail("a"), <<"B","@","x",".","y">>, <<"a","@","x">> }

\* the files of the two clients of Init: the same three e-mails, batched
\* differently
FormFiles ==
  { Csv(StdHeaders, << <<<<"A">>, Mail("a"), <<>>>>,
                       <<<<"A">>, Mail("b"), <<>>>>,
                       <<<<"A">>, Mail("c"), <<>>>> >>),
    Csv(StdHeaders, << <<<<"B">>, Mail("c"), <<>>>>,
                       <<<<"B">>, <<"A","@","x",".","y">>, <<>>>>,
                       <<<<"B">>, Mail("b"), <<"2","0","2","3">>>> >>) }

\* two clients, each with a file of valid rows, whose imports, contact
\* creations and contact updates interleave at their store calls
Init ==
  /\ InitCommon
  /\ contacts = {}
  /\ nextId = 1
  /\ upload \in [Clients -> FormFiles]

Next ==
  \E c \in Clients :
    \/ \E j \in JournalIds : ImportRequest(c, j)
    \/ ImportLookup(c)
    \/ ImportBatch(c)
    \/ \E e \in FormEmails, j \in JournalIds : CreateRequest(c, <<"N">>, e, j)
    \/ CreateLookup(c)
    \/ CreateWrite(c)
    \/ \E id \in 1..nextId, e \in FormEmails, j \in JournalIds :
         UpdateRequest(c, id, <<"N">>, e, j)
    \/ UpdateFind(c)
    \/ UpdateLookup(c)
    \/ UpdateWrite(c)

Spec == Init /\ [][Next]_vars

\* the fields of the brand form: a new name in two spellings, the name of
\* a stored brand in another spelling, no name; two new codes
BrandNames ==
  { <<"Z","e","d">>, <<"z","e","d">>, <<"a","c","m","e">>, <<>> }

BrandCodes == { <<"z","d">>, <<"q">> }

\* the body of PUT /api/brands/[id] as <<name, code>>, fields left out
\* being undefined
BrandEdits ==
  { <<<<"z","e","d">>, UNDEF>>, <<UNDEF, <<"b","t">>>>, <<UNDEF, UNDEF>>,
    <<<<"A","c","m","e">>, <<"z","d">>>> }

\* the id of PUT or DELETE /api/brands/[id]: a stored brand, a brand a
\* request may have created, an unknown id
BrandInputs == {"B1", "B3", "B9"}

\* two clients whose brand creations and brand updates interleave at their
\* store calls
InitBrand ==
  /\ InitCommon
  /\ contacts = {}
  /\ nextId = 1
  /\ upload = [c \in Clients |-> NoUpload]

NextBrand ==
  \E c \in Clients :
    \/ \E n \in BrandNames, k \in BrandCodes : BrandCreateRequest(c, n, k)
    \/ BrandCreateFind(c)
    \/ BrandCreateWrite(c)
    \/ \E id \in BrandInputs, e \in BrandEdits : BrandUpdateRequest(c, id, e[1], e[2])
    \/ BrandUpdateFind(c)
    \/ BrandUpdateConflict(c)
    \/ BrandUpdateWrite(c)

SpecBrand == InitBrand /\ [][NextBrand]_vars

\* three brands, the third without journals; a journal with one contact
\* under each of the other two; every client holds a file of three rows
InitTree ==
  /\ brands = InitBrands \cup {BrandRow("B3", <<"G","a","m","m","a">>, <<"G","M">>)}
  /\ journals = InitJournals
  /\ contacts = {Stored(1, "a", "J1"), Stored(2, "a", "J2")}
  /\ nextBrandId = 4
  /\ nextJournalId = 3
  /\ nextId = 3
  /\ now = 0
  /\ zone = 0
  /\ InitLibs
  /\ upload = [c \in Clients |->
                 Csv(StdHeaders, << <<<<"A">>, Mail("a"), <<>>>>,
                                    <<<<"A">>, Mail("b"), <<>>>>,
                                    <<<<"A">>, Mail("c"), <<>>>> >>)]
  /\ runs = [c \in Clients |-> 0]
  /\ req = [c \in Clients |-> IdleReq]

\* the requests of client c on the brand, journal and contact tables and
\* the store calls that answer them
TreeStep(c) ==
  \/ \E id \in BrandInputs : BrandDeleteRequest(c, id)
  \/ BrandDeleteFind(c)
  \/ BrandDeleteWrite(c)
  \/ BrandCreateRequest(c, <<"Z","e","d">>, <<"z","d">>)
  \/ BrandCreateFind(c)
  \/ BrandCreateWrite(c)
  \/ BrandUpdateRequest(c, "B1", <<"z","e","d">>, UNDEF)
  \/ BrandUpdateFind(c)
  \/ BrandUpdateConflict(c)
  \/ BrandUpdateWrite(c)
  \/ \E b \in BrandInputs : JournalCreateRequest(c, <<"N">>, b)
  \/ JournalCreateBrand(c)
  \/ JournalCreateWrite(c)
  \/ \E e \in {<<"J1", "B3">>, <<"J1", "B9">>, <<"J9", "B3">>} :
       JournalUpdateRequest(c, e[1], <<"N">>, e[2])
  \/ JournalUpdateBrand(c)
  \/ JournalUpdateFind(c)
  \/ JournalUpdateWrite(c)
  \/ \E id \in {"J1", "J9"} : JournalDeleteRequest(c, id)
  \/ JournalDeleteFind(c)
  \/ JournalDeleteWrite(c)
  \/ \E j \in {"J1", "J3"} : CreateRequest(c, <<"N">>, Mail("d"), j)
  \/ CreateLookup(c)
  \/ CreateWrite(c)
  \/ UpdateRequest(c, 1, <<"N">>, Mail("b"), "J2")
  \/ UpdateFind(c)
  \/ UpdateLookup(c)
  \/ UpdateWrite(c)
  \/ \E id \in {1, 9} : ContactDeleteRequest(c, id)
  \/ ContactDeleteFind(c)
  \/ ContactDeleteWrite(c)
  \/ \E j \in {"J1", "J3"} : ImportRequest(c, j)
  \/ ImportLookup(c)
  \/ ImportBatch(c)

\* two clients whose requests interleave at their store calls
NextTree == \E c \in Clients : TreeStep(c)

SpecTree == InitTree /\ [][NextTree]_vars

\* one client, its requests one after the other
NextTreeSeq == TreeStep(1)

SpecTreeSeq == InitTree /\ [][NextTreeSeq]_vars

\* files of up to two rows with the e-mails a, b and any two of the years
YearFiles ==
  { Csv(StdHeaders,
        [k \in 1..Len(ys) |-> <<<<"A">>, Mail(<<"a", "b">>[k]), ys[k]>>]) :
      ys \in SeqsUpTo(YearStrings, 2) }

\* one client with a file of YearFiles: imports, contact creations and
\* contact updates one after the other
InitYear ==
  /\ InitCommon
  /\ contacts = {}
  /\ nextId = 1
  /\ \E f \in YearFiles :
       upload = [c \in Clients |-> IF c = 1 THEN f ELSE NoUpload]

NextYear ==
  \/ \E j \in JournalIds : ImportRequest(1, j)
  \/ ImportLookup(1)
  \/ ImportBatch(1)
  \/ CreateRequest(1, <<"N">>, Mail("c"), "J1")
  \/ CreateLookup(1)
  \/ CreateWrite(1)
  \/ \E id \in 1..2, j \in JournalIds : UpdateRequest(1, id, <<"N">>, Mail("d"), j)
  \/ UpdateFind(1)
  \/ UpdateLookup(1)
  \/ UpdateWrite(1)

SpecYear == InitYear /\ [][NextYear]_vars

\* a stored contact created at instant t
StoredAt(id, ch, journalId, t) == [Stored(id, ch, journalId) EXCEPT !.createdAt = t]

\* the query parameters of an export: absent, a date, not a date; absent, a
\* journal; absent, a brand
DateInputs == {"", "1970-01-01", "1970-01-02", "x"}

ExportJournalInputs == {"", "J1", "J3"}

ExportBrandInputs == {"", "B1", "B2"}

\* the server's zone: west of UTC, UTC, east of UTC
Zones == {-1, 0, 1}

\* brand B1 with the journals J1 and J3, brand B2 with J2; contacts created
\* on the first day, at the first, a middle (twice) and the last instant of
\* the second day, and on the third day
InitExport ==
  /\ brands = InitBrands
  /\ journals = InitJournals \cup {JournalRow("J3", <<"J","3">>, "B1")}
  /\ nextBrandId = 3
  /\ nextJournalId = 4
  /\ contacts = { StoredAt(1, "a", "J1", 1),
                  StoredAt(2, "a", "J2", DayLen),
                  [StoredAt(3, "b", "J1", DayLen + 2) EXCEPT
                     !.year = <<2023>>, !.phone = << <<"5">> >>],
                  StoredAt(4, "c", "J3", DayLen + 2),
                  StoredAt(5, "d", "J1", 2 * DayLen - 1),
                  StoredAt(6, "e", "J2", 2 * DayLen + 1) }
  /\ nextId = 7
  /\ now = 3 * DayLen
  /\ zone \in Zones
  /\ InitLibs
  /\ upload = [c \in Clients |-> NoUpload]
  /\ runs = [c \in Clients |-> 0]
  /\ req = [c \in Clients |-> IdleReq]

\* client 1 exports while client 2 deletes contacts
NextExport ==
  \/ \E sd \in DateInputs, ed \in DateInputs,
        j \in ExportJournalInputs, b \in ExportBrandInputs :
       ExportRequest(1, sd, ed, j, b)
  \/ ExportQuery(1)
  \/ \E id \in {3, 6} : ContactDeleteRequest(2, id)
  \/ ContactDeleteFind(2)
  \/ ContactDeleteWrite(2)

SpecExport == InitExport /\ [][NextExport]_vars

\* the dashboard's store: seven journals under the two brands, two of
\* them of one name, whose order by name, by id and by contacts differ;
\* contacts created at the last instants of month 7 and month 8, at the
\* first of month 9, within it and at the first instant of month 10
AnalyticsJournals ==
  { JournalRow("J1", <<"D">>, "B1"), JournalRow("J2", <<"B">>, "B1"),
    JournalRow("J3", <<"A">>, "B1"), JournalRow("J4", <<"C">>, "B2"),
    JournalRow("J5", <<"E">>, "B2"), JournalRow("J6", <<"B">>, "B2"),
    [JournalRow("J7", <<"F">>, "B2") EXCEPT !.status = "INACTIVE"] }

AnalyticsContacts ==
  { StoredAt(1, "a", "J1", 75), StoredAt(2, "b", "J1", 87),
    StoredAt(3, "a", "J3", 76), StoredAt(4, "a", "J4", 87),
    StoredAt(5, "b", "J4", 88), StoredAt(6, "a", "J5", 90),
    StoredAt(7, "a", "J7", 88), StoredAt(8, "b", "J7", 95),
    StoredAt(9, "c", "J7", 96) }

\* the instants at which the dashboard is opened: within month 9, at its
\* last instant, at the first instant of month 10
AnalyticsNows == {90, 95, 96}

\* the store holds the contacts created so far
InitAnalytics ==
  /\ brands = InitBrands
  /\ journals = AnalyticsJournals
  /\ nextBrandId = 3
  /\ nextJournalId = 8
  /\ now \in AnalyticsNows
  /\ zone \in Zones
  /\ InitLibs
  /\ contacts = {k \in AnalyticsContacts : k.createdAt <= now}
  /\ nextId = 10
  /\ upload = [c \in Clients |-> NoUpload]
  /\ runs = [c \in Clients |-> 0]
  /\ req = [c \in Clients |-> IdleReq]

\* client 1 opens the dashboard while client 2 deletes a contact
NextAnalytics ==
  \/ AnalyticsRequest(1)
  \/ \E q \in AnalyticsQueries : AnalyticsQuery(1, q)
  \/ (runs[2] = 0 /\ ContactDeleteRequest(2, 4))
  \/ ContactDeleteFind(2)
  \/ ContactDeleteWrite(2)

SpecAnalytics == InitAnalytics /\ [][NextAnalytics]_vars

\* part_015 155-157 and 165 on its own: the handler's step from the two month
\* counts to the percentChange of the response
PercentChangeStep(c) ==
  /\ req[c].op = "analytics" /\ req[c].pc = "percent"
  /\ req' = [req EXCEPT ![c] =
               Respond(req[c],
                       [NoResponse EXCEPT
                          !.status = 200, !.success = TRUE,
                          !.body = [NoBody EXCEPT
                                      !.percentChange =
                                        percentChange(req[c].an.currentMonthCount,
                                                      req[c].an.lastMonthCount)]])]
  /\ UNCHANGED <<tree, env, libs, contacts, nextId, upload, runs>>

\* the month counts the two count() queries can return
MaxCurrentMonthCount == 80
MaxLastMonthCount == 48

InitPercent ==
  /\ brands = InitBrands
  /\ journals = InitJournals
  /\ nextBrandId = 3
  /\ nextJournalId = 3
  /\ now = 0
  /\ zone = 0
  /\ InitLibs
  /\ runs = [c \in Clients |-> 0]
  /\ contacts = {}
  /\ nextId = 1
  /\ upload = [c \in Clients |-> NoUpload]
  /\ \E cur \in 0..MaxCurrentMonthCount, last \in 0..MaxLastMonthCount :
       req = [c \in Clients |->
                IF c = 1
                  THEN [IdleReq EXCEPT
                          !.op = "analytics", !.pc = "percent",
                          !.an = [NoAnalytics EXCEPT
                                    !.currentMonthCount = cur,
                                    !.lastMonthCount = last]]
                  ELSE IdleReq]

NextPercent == PercentChangeStep(1)

SpecPercent == InitPercent /\ [][NextPercent]_vars

\* requests of two clients for the URLs 1 and 2, for the next URL not seen
\* so far, or without any URL
NextPool ==
  \E c \in Clients :
    \/ \E url \in {0, 1, 2, poolLog.urls + 1} : GetPrismaForRequest(c, url)
    \/ PrismaQueryDone(c)

SpecPool == InitBrand /\ [][NextPool]_vars

\* contacts as POST /api/contacts, PUT /api/contacts/[id] and imports leave
\* them: the same address under two journals, a name with a comma and a
\* quote, a phone and a year, a name stored with a leading blank
RoundTripContacts ==
  { StoredAt(1, "a", "J1", 1),
    [StoredAt(2, "a", "J2", 2) EXCEPT !.name = <<"B">>],
    [StoredAt(3, "b", "J1", 3) EXCEPT
       !.name = <<"a", ",", "\"", "b">>, !.phone = << <<"5">> >>,
       !.year = <<2023>>],
    [StoredAt(4, "c", "J2", 4) EXCEPT !.name = <<" ", "C">>],
    [StoredAt(5, "d", "J2", 4) EXCEPT !.year = <<1900>>] }

InitRoundTrip ==
  /\ brands = InitBrands
  /\ journals = InitJournals \cup {JournalRow("J3", <<"J","3">>, "B1")}
  /\ nextBrandId = 3
  /\ nextJournalId = 4
  /\ now = 5
  /\ zone = 0
  /\ InitLibs
  /\ contacts \in SUBSET RoundTripContacts
  /\ nextId = 6
  /\ upload = [c \in Clients |-> NoUpload]
  /\ runs = [c \in Clients |-> 0]
  /\ req = [c \in Clients |-> IdleReq]

\* an export without filters, and its document imported into journal J3
NextRoundTrip ==
  \/ ExportRequest(1, "", "", "", "")
  \/ ExportQuery(1)
  \/ Reupload(1)
  \/ (upload[1].file /\ ImportRequest(1, "J3"))
  \/ ImportLookup(1)
  \/ ImportBatch(1)

SpecRoundTrip == InitRoundTrip /\ [][NextRoundTrip]_vars

InitProvider ==
  /\ brands = InitBrands
  /\ journals = InitJournals
  /\ nextBrandId = 3
  /\ nextJournalId = 3
  /\ now = 90
  /\ zone = 0
  /\ InitLibs
  /\ contacts = {StoredAt(1, "a", "J1", 75), StoredAt(2, "b", "J2", 88)}
  /\ nextId = 3
  /\ upload = [c \in Clients |-> NoUpload]
  /\ runs = [c \in Clients |-> 0]
  /\ req = [c \in Clients |-> IdleReq]

\* one browser: the brands page saves brands and the provider refetches
NextProvider ==
  \/ \E n \in BrandNames, k \in BrandCodes : BrandCreateRequest(1, n, k)
  \/ BrandCreateFind(1)
  \/ BrandCreateWrite(1)
  \/ \E id \in BrandInputs, e \in BrandEdits : BrandUpdateRequest(1, id, e[1], e[2])
  \/ BrandUpdateFind(1)
  \/ BrandUpdateConflict(1)
  \/ BrandUpdateWrite(1)
  \/ BrandsPageSaved(1)
  \/ \E i \in 1..MaxRuns : FetchStatsServe(i)
  \/ \E i \in 1..MaxRuns : FetchStatsResolve(i)

SpecProvider == InitProvider /\ [][NextProvider]_vars

\* ========================================================================
\* Properties of POST /api/import, one client (SpecSeq)
\* ========================================================================
\* what the contract says of a row <<name, email, year>> of a file with the
\* headers name, email, year
RowName(row) == trim(row[1])
RowEmail(row) == toLowerCase(trim(row[2]))
RowYear(row) == trim(row[3])
RowMissing(row) == RowName(row) = <<>> \/ RowEmail(row) = <<>>
YearBad(y) ==
  /\ y # <<>>
  /\ \/ parseInt(y) = <<>>
     \/ parseInt(y)[1] < 1900
     \/ parseInt(y)[1] > 2100
RowOk(row) == ~RowMissing(row) /\ ~YearBad(RowYear(row))
OkRows(rows) == {k \in 1..Len(rows) : RowOk(rows[k])}

EmailsIn(rows, journalId) == {k.email : k \in {x \in rows : x.journalId = journalId}}

HasHeader(u, h) == \E k \in 1..Len(u.headers) : toLowerCase(trim(u.headers[k])) = h

ImportDone(c) == req[c].op = "import" /\ req[c].pc = "done"
ImportOk(c) == ImportDone(c) /\ req[c].resp.success
StdFile(c) == upload[c].headers = StdHeaders

\* the valid rows of the file whose (email, journal) was stored when the
\* request arrived or is the e-mail of an earlier valid row
DupRowsOf(c) ==
  LET rows == upload[c].rows
      old == EmailsIn(req[c].before, req[c].journalId)
  IN {k \in OkRows(rows) :
        \/ RowEmail(rows[k]) \in old
        \/ \E m \in OkRows(rows) : m < k /\ RowEmail(rows[m]) = RowEmail(rows[k])}

C2_IdempotentReimport ==
  (ImportOk(1) /\ StdFile(1) /\ req[1].prev.resp.success
     /\ req[1].prev.journalId = req[1].journalId) =>
    /\ contacts = req[1].before
    /\ req[1].resp.summary.imported = 0
    /\ req[1].resp.summary.duplicates = Cardinality(OkRows(upload[1].rows))
    /\ req[1].resp.summary.errors = req[1].prev.resp.summary.errors

\* C2 witness: a second run of a file with a valid and an invalid row, whose
\* first run imported something
C2_Witness ==
  /\ ImportOk(1) /\ StdFile(1) /\ req[1].prev.resp.success
  /\ req[1].prev.journalId = req[1].journalId
  /\ req[1].prev.resp.summary.imported >= 2
  /\ req[1].resp.summary.duplicates >= 2
  /\ req[1].resp.summary.errors >= 1

\* C3 -- Row independence: a file of N valid rows (distinct e-mails, none in
\* the journal) and M rows with an empty name or e-mail imports exactly the
\* N rows and reports M errors, a row that also has a bad year counting once.
C3_RowIndependence ==
  LET rows == upload[1].rows
      r == req[1]
      ok == OkRows(rows)
      bad == {k \in 1..Len(rows) : RowMissing(rows[k])}
  IN (ImportDone(1) /\ StdFile(1) /\ Len(rows) > 0
        /\ JournalFound(r.journalId)
        /\ ok \cup bad = 1..Len(rows)
        /\ DupRowsOf(1) = {}) =>
       /\ r.resp.success /\ r.resp.status = 200
       /\ r.resp.summary.total = Len(rows)
       /\ r.resp.summary.imported = Cardinality(ok)
       /\ r.resp.summary.errors = Cardinality(bad)
       /\ r.resp.summary.duplicates = 0
       /\ \A k \in ok : \E x \in contacts :
            /\ x.id \in r.inserted
            /\ x.email = RowEmail(rows[k])
            /\ x.name = RowName(rows[k])
            /\ x.journalId = r.journalId

\* C3 witness: valid rows imported around a row that lacks a name and has a
\* bad year as well
C3_Witness ==
  LET rows == upload[1].rows IN
  /\ ImportOk(1) /\ StdFile(1) /\ DupRowsOf(1) = {}
  /\ req[1].resp.summary.imported = 2
  /\ req[1].resp.summary.errors = 1
  /\ Len(rows) = 3
  /\ RowMissing(rows[2]) /\ YearBad(RowYear(rows[2]))


\* the candidates the contract accepts, in file order, as <<email, year>>
RECURSIVE Accepted(_)
Accepted(rows) ==
  IF rows = <<>> THEN <<>>
  ELSE (IF RowOk(Head(rows))
          THEN << <<RowEmail(Head(rows)),
                    IF RowYear(Head(rows)) = <<>> THEN <<>>
                    ELSE parseInt(RowYear(Head(rows)))>> >>
          ELSE <<>>) \o Accepted(Tail(rows))

StructFail(c) ==
  LET u == upload[c] IN
  \/ ~u.file
  \/ req[c].journalId = ""
  \/ ~endsWith(u.fileName, <<".","c","s","v">>)
  \/ u.size > 10 * 1024 * 1024
  \/ ~JournalFound(req[c].journalId)
  \/ u.parseErrors > 0
  \/ Len(u.rows) = 0
  \/ ~HasHeader(u, NameH)
  \/ ~HasHeader(u, EmailH)

\* C7 -- Structural failures leave the store unchanged: a request rejected
\* for its file, journalId, file name, size, unknown journal, parse errors,
\* zero rows or missing headers never issues a batch insert, inserts no
\* row, and is answered non-2xx with an error message.
C7_StructuralFailures ==
  (req[1].op = "import" /\ StructFail(1)) =>
    /\ req[1].pc \in {"lookup", "done"}
    /\ req[1].attempted = {}
    /\ req[1].inserted = {}
    /\ contacts = req[1].before
    /\ req[1].pc = "done" =>
         /\ req[1].resp.status \in {400, 404}
         /\ ~req[1].resp.success
         /\ req[1].resp.error # ""

\* C7 witness: a file with data rows rejected for its headers, the last of
\* the structural checks
C7_Witness ==
  /\ ImportDone(1) /\ StructFail(1)
  /\ Len(upload[1].rows) > 0
  /\ contacts = req[1].before
  /\ req[1].resp.status = 400
  /\ req[1].resp.error = "Missing required headers"

\* a request that reaches the header check but for the number of its rows
ReachesParse(c) ==
  LET u == upload[c] IN
  /\ ImportDone(c)
  /\ u.file /\ JournalFound(req[c].journalId)
  /\ endsWith(u.fileName, <<".","c","s","v">>)
  /\ u.size <= 10 * 1024 * 1024
  /\ u.parseErrors = 0

\* the required headers the file lacks, in the order name, email
LackingHeaders(u) ==
  (IF HasHeader(u, NameH) THEN <<>> ELSE <<NameH>>)
    \o (IF HasHeader(u, EmailH) THEN <<>> ELSE <<EmailH>>)

\* C9 as claimed -- Missing required headers: a CSV whose header row lacks
\* name or email is rejected with a message naming exactly the missing
\* headers, whatever the number of its data rows, zero included.
C9_MissingHeadersAnyRows ==
  (ReachesParse(1) /\ LackingHeaders(upload[1]) # <<>>) =>
    /\ req[1].resp.status = 400
    /\ req[1].resp.error = "Missing required headers"
    /\ req[1].resp.missing = LackingHeaders(upload[1])

\* C9 amended -- Missing required headers: a CSV with at least one data row
\* whose header row lacks name or email is rejected (400) with a message
\* naming exactly the missing headers; with no data row it is rejected as
\* an empty file before the headers are looked at.
C9_MissingHeaders ==
  (ReachesParse(1) /\ LackingHeaders(upload[1]) # <<>>) =>
    /\ req[1].resp.status = 400
    /\ ~req[1].resp.success
    /\ contacts = req[1].before
    /\ IF Len(upload[1].rows) > 0
         THEN /\ req[1].resp.error = "Missing required headers"
              /\ req[1].resp.missing = LackingHeaders(upload[1])
         ELSE req[1].resp.error = "CSV file is empty or has no valid data rows"

\* C9 witness: a file with rows and the headers phone, article_title
C9_Witness ==
  /\ ReachesParse(1)
  /\ Len(upload[1].rows) > 0
  /\ req[1].resp.error = "Missing required headers"
  /\ req[1].resp.missing = <<NameH, EmailH>>


\* ========================================================================
\* Properties of POST /api/import with a store that may fail (SpecFault)
\* ========================================================================
\* the offsets of the batches of n candidates
BatchOffsets(n) == {i \in 0..n : i < n /\ i % BATCH_SIZE = 0}

\* C6 -- Batch independence: when the insert of a batch fails, what earlier
\* batches committed stays stored, the later batches are still attempted,
\* in order, and what they insert is counted in imported; nothing is rolled
\* back across batches.
C6_BatchIndependence ==
  LET r == req[1] IN
  (r.op = "import") =>
    /\ r.before \subseteq contacts
    /\ r.inserted \subseteq {k.id : k \in contacts}
    /\ r.failed \subseteq r.attempted
    /\ r.pc = "batch" =>
         r.attempted = {i \in BatchOffsets(Len(r.validContacts)) : i < r.i}
    /\ ImportOk(1) =>
         /\ r.attempted = BatchOffsets(Len(r.validContacts))
         /\ r.resp.summary.imported = Cardinality(r.inserted)
         /\ {k \in contacts : k.id \in r.inserted} = contacts \ r.before

\* C6 witness: the second of three batches failed, the first and the third
\* inserted rows that are stored and counted
C6_Witness ==
  LET r == req[1] IN
  /\ ImportOk(1)
  /\ r.failed = {BATCH_SIZE}
  /\ r.attempted = {0, BATCH_SIZE, 2 * BATCH_SIZE}
  /\ r.resp.summary.imported = 3
  /\ \E k \in contacts : k.id \in r.inserted /\ k.email = r.validContacts[1].email
  /\ \E k \in contacts :
       k.id \in r.inserted /\ k.email = r.validContacts[2 * BATCH_SIZE + 1].email

\* C8 as claimed -- Infrastructure errors are fatal: when a store call of
\* the import throws, a batch insert included, the request ends with an
\* internal error (500), not with success, and the failure is not folded
\* into the row counts.
C8_InfrastructureFatal ==
  (ImportDone(1) /\ req[1].faulted) =>
    /\ req[1].resp.status = 500
    /\ ~req[1].resp.success


\* ========================================================================
\* Properties of concurrent requests (Spec)
\* ========================================================================
\* the e-mails of the valid rows of client c's file
FileEmails(c) == {RowEmail(upload[c].rows[k]) : k \in OkRows(upload[c].rows)}

\* the two clients have each issued one request, an import, into the same
\* journal of the empty store, and both are answered
TwoImportsDone ==
  /\ runs[1] = 1 /\ runs[2] = 1
  /\ ImportDone(1) /\ ImportDone(2)
  /\ req[1].journalId = req[2].journalId

\* C5 -- Concurrent imports: two imports into one journal with overlapping
\* e-mails, their batch inserts interleaved in any way, both succeed and
\* count no row as an error; every overlapping (email, journal) is stored
\* once, is inserted (counted as imported) by exactly one of the two and is
\* a duplicate for the other.
C5_ConcurrentImports ==
  TwoImportsDone =>
    LET J == req[1].journalId IN
    /\ \A c \in Clients :
         /\ req[c].resp.success /\ req[c].resp.status = 200
         /\ req[c].resp.summary.errors = 0
         /\ req[c].resp.summary.imported = Cardinality(req[c].inserted)
         /\ req[c].resp.summary.duplicates =
              Len(upload[c].rows) - Cardinality(req[c].inserted)
    /\ req[1].inserted \cap req[2].inserted = {}
    /\ \A e \in FileEmails(1) \cap FileEmails(2) :
         /\ Cardinality({k \in contacts : k.email = e /\ k.journalId = J}) = 1
         /\ \E k \in contacts :
              /\ k.email = e /\ k.journalId = J
              /\ (k.id \in req[1].inserted) # (k.id \in req[2].inserted)

\* C5 witness: each of the two imports inserted some of the shared e-mails
\* and met the other's rows as duplicates
C5_Witness ==
  /\ TwoImportsDone
  /\ FileEmails(1) \cap FileEmails(2) # {}
  /\ req[1].inserted # {} /\ req[2].inserted # {}
  /\ req[1].resp.summary.duplicates >= 1
  /\ req[2].resp.summary.duplicates >= 1

\* another row of the table rows holds (email, journalId)
Clash(rows, email, journalId, id) ==
  \E k \in rows : k.id # id /\ k.email = email /\ k.journalId = journalId

ElsewhereRows(c) ==
  LET rows == upload[c].rows
      J == req[c].journalId
  IN {k \in OkRows(rows) \ DupRowsOf(c) :
        \E old \in req[c].before :
          old.email = RowEmail(rows[k]) /\ old.journalId # J}

C12_BrandUniqueness ==
  \A b1, b2 \in brands :
    b1.id # b2.id =>
      /\ toLowerCase(b1.name) # toLowerCase(b2.name)
      /\ toLowerCase(b1.code) # toLowerCase(b2.code)

\* what does hold of the brands table: names are distinct as written, codes
\* are stored in upper case and distinct
BrandIndexesHold ==
  \A b1, b2 \in brands :
    /\ b1.code = toUpperCase(b1.code)
    /\ b1.id # b2.id => (b1.name # b2.name /\ b1.code # b2.code)

\* ========================================================================
\* Properties of the brand, journal and contact tables (SpecTree, SpecTreeSeq)
\* ========================================================================
\* C15 -- Referential integrity: under any interleaving of brand, journal
\* and contact creations, updates and deletions and of imports, every
\* stored journal's brandId names a stored brand and every stored contact's
\* journalId names a stored journal.
C15_ReferentialIntegrity ==
  /\ \A j \in journals : \E b \in brands : b.id = j.brandId
  /\ \A k \in contacts : \E j \in journals : j.id = k.journalId

\* C15 witness: a journal was deleted between two batch inserts of an
\* import: the rows of the first batch went with the journal, the second
\* batch was rejected by the store
C15_Witness ==
  \E c \in Clients :
    /\ ImportOk(c)
    /\ ~JournalFound(req[c].journalId)
    /\ req[c].inserted # {}
    /\ req[c].failed = {BATCH_SIZE}
    /\ \A k \in contacts : k.id \notin req[c].inserted

\* the step taken answers client c's store call at pc
Answers(c, op, pc) ==
  /\ req[c].op = op /\ req[c].pc = pc
  /\ req'[c] # req[c]

\* C13 -- Brand deletion with dependents is rejected: DELETE on a brand that
\* owns n >= 1 journals is answered 409 with n in the message and leaves
\* the brands, the journals and the contacts as they are; a brand is
\* deleted only when it owns no journal, and then nothing but the brand
\* goes.
C13_BrandDeleteRejected ==
  [][ /\ Answers(1, "brandDelete", "find") =>
           LET id == req[1].brandId
               n == Cardinality({j \in journals : j.brandId = id})
           IN (BrandFound(id) /\ n >= 1) =>
                /\ req'[1].pc = "done"
                /\ req'[1].resp.status = 409
                /\ ~req'[1].resp.success
                /\ req'[1].resp.n = n
                /\ UNCHANGED <<brands, journals, contacts>>
      /\ \A b \in brands :
           (b \notin brands' /\ ~\E x \in brands' : x.id = b.id) =>
             /\ {j \in journals : j.brandId = b.id} = {}
             /\ brands' = brands \ {b}
             /\ UNCHANGED <<journals, contacts>>
    ]_vars

\* C13 witness: the delete of a brand that owns two journals, one of them
\* created by the request before, was refused with the count 2
C13_Witness ==
  /\ req[1].op = "brandDelete" /\ req[1].pc = "done"
  /\ req[1].resp.status = 409
  /\ req[1].resp.n = 2
  /\ BrandFound(req[1].brandId)
  /\ Cardinality({j \in journals : j.brandId = req[1].brandId}) = 2

\* C14 as claimed -- The cascade is never reached through brand deletion:
\* no DELETE /api/brands/[id] removes a journal or a contact, also when a
\* journal is created or moved under the brand between the handler's
\* journal count and its delete.
C14_NoCascadeThroughBrandDelete ==
  \A c \in Clients :
    req[c].op = "brandDelete" =>
      (req[c].goneJournals = {} /\ req[c].goneContacts = {})

\* C18 -- Journal deletion cascades: the store call of a successful DELETE
\* /api/journals/[id] removes the journal and every contact of it and
\* nothing else: the contacts of the other journals, the other journals
\* and the brands stay; a DELETE of an unknown id is answered 404 and
\* changes nothing.
C18_JournalDeleteCascades ==
  [][ \A c \in Clients :
        /\ (Answers(c, "journalDelete", "write") /\ req'[c].resp.success) =>
             LET id == req[c].journalId IN
             /\ journals' = {j \in journals : j.id # id}
             /\ \A j \in journals' : j.id # id
             /\ \A k \in contacts' : k.journalId # id
             /\ contacts' = {k \in contacts : k.journalId # id}
             /\ UNCHANGED brands
        /\ (Answers(c, "journalDelete", "find") /\ ~JournalFound(req[c].journalId)) =>
             /\ req'[c].pc = "done"
             /\ req'[c].resp.status = 404
             /\ UNCHANGED <<brands, journals, contacts>>
    ]_vars

\* C18 witness: a journal was deleted with the contacts it held, the first
\* one and an imported one, while the other journal kept its contact
C18_Witness ==
  \E c \in Clients :
    /\ req[c].op = "journalDelete" /\ req[c].pc = "done"
    /\ req[c].resp.success
    /\ Cardinality(req[c].goneContacts) >= 2
    /\ ~JournalFound(req[c].journalId)
    /\ \A k \in contacts : k.journalId # req[c].journalId
    /\ \E k \in contacts : k.journalId = "J2"

\* ========================================================================
\* Properties of the stored contacts (SpecYear, Spec)
\* ========================================================================
YearInRange(y) == y = <<>> \/ (y[1] \in Int /\ y[1] >= 1900 /\ y[1] <= 2100)

\* C16 -- Year invariant: through imports, contact creations and contact
\* updates every stored contact's year is null or an integer of 1900..2100;
\* a contact creation stores a null year and a contact update leaves the
\* year of its row as it was.
C16_YearInvariant ==
  /\ \A k \in contacts : YearInRange(k.year)
  /\ (req[1].op = "create" /\ req[1].pc = "done") =>
       \A k \in contacts : k.id \in req[1].inserted => k.year = <<>>
  /\ (req[1].op = "update" /\ req[1].pc = "done") =>
       \A k \in contacts :
         k.id \in req[1].updated =>
           \E old \in req[1].atWrite : old.id = k.id /\ old.year = k.year

\* C16 witness: an update has changed a contact that an import stored with
\* the year 2100, out of a file whose other row had the year 1899
C16_Witness ==
  /\ req[1].op = "update" /\ req[1].pc = "done"
  /\ Len(upload[1].rows) = 2
  /\ RowYear(upload[1].rows[1]) = <<"1","8","9","9">>
  /\ Cardinality(contacts) = 1
  /\ \E k \in contacts :
       k.id \in req[1].updated /\ k.year = <<2100>> /\ k.email = Mail("d")

\* C17 -- E-mail normalisation: every contact that an import, a contact
\* creation or a contact update has written is stored with its e-mail in
\* lower case, so no two contacts of one journal differ only in the case
\* of their e-mail.
C17_EmailLowerCase ==
  /\ \A k \in contacts : k.email = toLowerCase(k.email)
  /\ \A k1, k2 \in contacts :
       (k1.journalId = k2.journalId
          /\ toLowerCase(k1.email) = toLowerCase(k2.email)) => k1.id = k2.id

\* C17 witness: an import has stored the file's row A@x.y and an update has
\* answered 200 to a form spelling its e-mail B@x.y
C17_Witness ==
  \E c \in Clients :
    /\ req[c].op = "update" /\ req[c].pc = "done" /\ req[c].resp.status = 200
    /\ req[c].email = <<"B","@","x",".","y">>
    /\ \E k \in contacts : k.id \in req[c].updated /\ k.email = Mail("b")
    /\ \E k \in contacts : k.name = <<"B">> /\ k.email = Mail("a")

\* ========================================================================
\* Properties of GET /api/export (SpecExport)
\* ========================================================================
\* the first and the last instant of the day a date string names
DayStart(s) == newDate(s)[1]

DayEnd(s) == newDate(s)[1] + DayLen - 1

\* the contact satisfies every filter the request supplies
Satisfies(k, r) ==
  /\ (r.startDate # "" => k.createdAt >= DayStart(r.startDate))
  /\ (r.endDate # "" => k.createdAt <= DayEnd(r.endDate))
  /\ (r.journalId # "" => k.journalId = r.journalId)
  /\ (r.brandId # "" =>
        \E j \in journals : j.id = k.journalId /\ j.brandId = r.brandId)

\* an export of client c has answered 200
Exported(c) ==
  req[c].op = "export" /\ req[c].pc = "done" /\ req[c].resp.status = 200

\* the document has one line per contact found, after its header if any
OneLinePerFound(r) ==
  LET h == Len(r.resp.csv) - Len(r.found) IN
  /\ h \in {0, 1}
  /\ \A i \in DOMAIN r.found :
       \E k \in r.atQuery : k.id = r.found[i] /\ r.resp.csv[h + i] = csvData(k)
  /\ \A i, j \in DOMAIN r.found : r.found[i] = r.found[j] => i = j

\* C19 -- Export filtering: the export has exactly one row for each stored
\* contact that satisfies every supplied filter (created at or after the
\* start date, at or before the end of the end date's day, of the journal,
\* of a journal of the brand) and no other row.
C19_ExportFiltering ==
  \A c \in Clients :
    Exported(c) =>
      /\ OneLinePerFound(req[c])
      /\ {req[c].found[i] : i \in DOMAIN req[c].found}
           = {k.id : k \in {x \in req[c].atQuery : Satisfies(x, req[c])}}

\* C20 -- Empty export: an export whose filters match no contact answers
\* 200 with a document of exactly one line, the header
\* name,email,phone,article_title,year.
C20_EmptyExportHeader ==
  \A c \in Clients :
    (req[c].op = "export" /\ req[c].pc = "done" /\ ~req[c].where.invalid
       /\ WhereRows(req[c].atQuery, req[c].where) = {}) =>
      /\ req[c].resp.status = 200
      /\ req[c].resp.csv = <<ExportColumns>>

\* with the server's clock on UTC the export has exactly the contacts that
\* satisfy the filters
ExportFilteringUtc == zone = 0 => C19_ExportFiltering

\* ========================================================================
\* Properties of the import summary (SpecFault)
\* ========================================================================
\* C27 -- Import summary accounting: in every successful response of an
\* import, runs with failed batch inserts included, total = imported +
\* duplicates + errors: each data row is counted in exactly one counter.
C27_SummaryAccounting ==
  \A c \in Clients :
    ImportOk(c) =>
      LET m == req[c].resp.summary IN
      m.total = m.imported + m.duplicates + m.errors

\* without a failed batch insert the three counters add up to the rows
SummaryAccountingNoFault ==
  \A c \in Clients :
    (ImportOk(c) /\ req[c].failed = {}) =>
      LET m == req[c].resp.summary IN
      m.total = m.imported + m.duplicates + m.errors

\* ========================================================================
\* Properties of GET /api/analytics (SpecAnalytics)
\* ========================================================================
\* the dashboard request of client c has answered
AnalyticsDone(c) ==
  req[c].op = "analytics" /\ req[c].pc = "done" /\ req[c].resp.status = 200

RECURSIVE SumValues(_)
SumValues(entries) ==
  IF entries = <<>> THEN 0 ELSE Head(entries).value + SumValues(Tail(entries))

\* C22 as claimed -- Analytics brand totals: the values of brandData add up
\* to stats.totalContacts in every response.
C22_BrandTotals ==
  \A c \in Clients :
    AnalyticsDone(c) =>
      SumValues(req[c].resp.body.brandData) = req[c].resp.body.totalContacts

\* C22 amended -- when the count of contacts and the journal listing read
\* the same email_contacts table, the values of brandData add up to
\* stats.totalContacts.
C22_BrandTotalsOneSnapshot ==
  \A c \in Clients :
    (AnalyticsDone(c)
       /\ req[c].an.read["totalContacts"] = req[c].an.read["journals"]) =>
      SumValues(req[c].resp.body.brandData) = req[c].resp.body.totalContacts

\* C22 witness: a response over eight contacts of both brands, both reads
\* having seen the same table
C22_Witness ==
  /\ AnalyticsDone(1)
  /\ req[1].an.read["totalContacts"] = req[1].an.read["journals"]
  /\ req[1].resp.body.totalContacts = 8
  /\ Len(req[1].resp.body.brandData) = 2
  /\ \A i \in 1..2 : req[1].resp.body.brandData[i].value >= 3

\* the rows of a sequence are in ascending order of name
AscendingNames(js) ==
  \A i, j \in DOMAIN js : i < j => ~nameBefore(js[j].name, js[i].name)

\* C25 -- Top journals: topJournals has min(5, number of journals) entries
\* in descending order of contact count, no journal left out has more
\* contacts than one included, and journals of equal count are in ascending
\* order of name.
C25_TopJournals ==
  \A c \in Clients :
    AnalyticsDone(c) =>
      LET top == req[c].resp.body.topJournals
          all == req[c].an.journals
          listed == req[c].resp.body.journals
      IN /\ Len(top) = (IF Len(all) < 5 THEN Len(all) ELSE 5)
         /\ Len(listed) = Len(all)
         /\ {listed[i] : i \in DOMAIN listed} = {all[i] : i \in DOMAIN all}
         /\ \A i \in DOMAIN top :
              /\ top[i].name = listed[i].name
              /\ top[i].emails = listed[i].contacts
              /\ top[i].brand = listed[i].brand
         /\ \A i, j \in DOMAIN listed :
              i < j =>
                /\ listed[i].contacts >= listed[j].contacts
                /\ listed[i].contacts = listed[j].contacts =>
                     ~nameBefore(listed[j].name, listed[i].name)

\* C25 witness: seven journals, five listed: F with three contacts, then C
\* before D with two each, then A before E with one each
C25_Witness ==
  /\ AnalyticsDone(1)
  /\ Len(req[1].an.journals) = 7
  /\ [i \in 1..5 |-> req[1].resp.body.topJournals[i].name]
       = << <<"F">>, <<"C">>, <<"D">>, <<"A">>, <<"E">> >>
  /\ [i \in 1..5 |-> req[1].resp.body.topJournals[i].emails] = <<3, 2, 2, 1, 1>>

\* C30 -- Computing topJournals leaves the journal listing untouched: the
\* journals array of the response is in ascending order of name, as the
\* store returned it, whatever the contact counts.
C30_JournalListingByName ==
  \A c \in Clients :
    AnalyticsDone(c) =>
      /\ AscendingNames(req[c].resp.body.journals)
      /\ req[c].resp.body.journals = req[c].an.journals

\* the calendar month of the server in which a contact was created
CreatedInMonth(x, k) ==
  /\ MonthStartDay[k] * DayLen <= x.createdAt + zone
  /\ x.createdAt + zone < MonthStartDay[k + 1] * DayLen

\* C24 -- Analytics month boundary: the previous-month window is the whole
\* calendar month before the one of the request's instant now and the
\* current-month window starts at the first instant of now's month, so
\* that each contact created in either month is counted in exactly one of
\* lastMonthCount and currentMonthCount.
C24_MonthBoundary ==
  \A c \in Clients :
    AnalyticsDone(c) =>
      LET a == req[c].an
          k == CHOOSE m \in 2..(Len(MonthStartDay) - 1) :
                 CreatedInMonth([createdAt |-> a.now], m)
          seenLast == a.read["lastMonthCount"]
          seenCur == a.read["currentMonthCount"]
          inLast(x) == x.createdAt >= a.lastMonthStart /\ x.createdAt <= a.lastMonthEnd
          inCur(x) == x.createdAt >= a.currentMonthStart
      IN /\ a.lastMonthEnd + 1 = a.currentMonthStart
         /\ \A x \in seenLast \cup seenCur :
              /\ inLast(x) <=> CreatedInMonth(x, k - 1)
              /\ inCur(x) <=> (CreatedInMonth(x, k) \/ x.createdAt > a.now)
              /\ ~(inLast(x) /\ inCur(x))
         /\ a.lastMonthCount
              = Cardinality({x \in seenLast : CreatedInMonth(x, k - 1)})
         /\ a.currentMonthCount
              = Cardinality({x \in seenCur : CreatedInMonth(x, k)})

\* C24 witness: contacts created at the last instant of the previous month
\* and at the first instant of the current month were counted, one in each
\* count
C24_Witness ==
  /\ AnalyticsDone(1)
  /\ \E x \in req[1].an.read["lastMonthCount"] :
       x.createdAt = req[1].an.lastMonthEnd
  /\ \E x \in req[1].an.read["currentMonthCount"] :
       x.createdAt = req[1].an.currentMonthStart
  /\ req[1].an.lastMonthCount >= 1
  /\ req[1].an.currentMonthCount >= 1


\* the exact quotient n / d (d > 0) rounded to an integer, halves going up
\* (Math.round) or away from zero
roundRatio(n, d) ==
  {(2 * n + d) \div (2 * d),
   IF n >= 0 THEN (2 * n + d) \div (2 * d) ELSE 0 - ((d - 2 * n) \div (2 * d))}

\* C23 -- Analytics percent change: percentChange is 0 whenever the previous
\* calendar month has no contacts, and otherwise the rounded value of
\* 100 * (currentMonthCount - lastMonthCount) / lastMonthCount.
C23_PercentChange ==
  \A c \in Clients :
    AnalyticsDone(c) =>
      IF req[c].an.lastMonthCount = 0
        THEN req[c].resp.body.percentChange = 0
        ELSE req[c].resp.body.percentChange \in
               roundRatio(100 * (req[c].an.currentMonthCount
                                   - req[c].an.lastMonthCount),
                          req[c].an.lastMonthCount)

\* the part of C23 about an empty previous month
PercentChangeZeroMonth ==
  \A c \in Clients :
    (AnalyticsDone(c) /\ req[c].an.lastMonthCount = 0) =>
      req[c].resp.body.percentChange = 0

\* the figure is always one of the integers nearest to the exact quotient
PercentChangeNearest ==
  \A c \in Clients :
    (AnalyticsDone(c) /\ req[c].an.lastMonthCount > 0) =>
      LET last == req[c].an.lastMonthCount
          d == 100 * (req[c].an.currentMonthCount - last)
                 - req[c].resp.body.percentChange * last
      IN 2 * d <= last /\ 2 * d >= 0 - last

\* C26 -- LRU eviction of the Prisma client cache: when getPrismaClient
\* evicts, the entry removed is the least recently used one, the URL whose
\* most recent getPrismaClient call is the oldest.
C26_EvictsLeastRecentlyUsed ==
  \A i \in DOMAIN poolLog.evicted :
    poolLog.evicted[i].urls = {poolLog.evicted[i].lru}

\* evictions happen only at a full cache and remove exactly one entry, never
\* leaving more than MAX_CLIENTS
PoolBounded ==
  /\ Len(prismaClients) <= MAX_CLIENTS
  /\ \A i \in DOMAIN poolLog.evicted : Cardinality(poolLog.evicted[i].urls) = 1

\* C28 -- No client is disconnected while in use: the PrismaClient a request
\* holds is not disconnected before the request has finished its store calls.
C28_NoDisconnectInUse ==
  \A c \in Clients :
    (req[c].op = "query" /\ req[c].pc = "findMany") =>
      req[c].prisma \notin disconnected

\* every fetchStats call has run to its end
AllFetched == fetches # <<>> /\ \A i \in DOMAIN fetches : fetches[i].pc = "done"

\* the provider and app_stats_cache hold the response of the call started last
HoldsLatest ==
  LET body == fetches[Len(fetches)].body IN
  /\ provider.brands = body.brands
  /\ provider.journals = body.journals
  /\ provider.emailCount = body.totalContacts
  /\ provider.storage # <<>>
  /\ provider.storage[1].brands = body.brands
  /\ provider.storage[1].journals = body.journals
  /\ provider.storage[1].emailCount = body.totalContacts

\* C29 -- Client stats cache freshness: once all overlapping fetchStats calls
\* have completed, the provider's brands, journals and emailCount and the
\* app_stats_cache entry hold the response of the most recently started
\* call, and loading is true as long as any call is in flight.
C29_StatsFreshness ==
  /\ AllFetched => HoldsLatest
  /\ (\E i \in DOMAIN fetches : fetches[i].pc # "done") => provider.loading

\* the first half of C29 alone
StatsHoldLatestStarted == AllFetched => HoldsLatest

\* the second half of C29 alone
LoadingWhileInFlight ==
  (\E i \in DOMAIN fetches : fetches[i].pc # "done") => provider.loading

\* what the provider does guarantee: after a call has ended, it shows the
\* response of some call that has ended
StatsHoldSomeResponse ==
  (\E i \in DOMAIN fetches : fetches[i].pc = "done") =>
    \E i \in DOMAIN fetches :
      /\ fetches[i].pc = "done"
      /\ provider.brands = fetches[i].body.brands
      /\ provider.storage[1].brands = fetches[i].body.brands
      /\ provider.emailCount = fetches[i].body.totalContacts

\* the (name, email, phone, year) tuples of the contacts in rows
Tuples(rows) == {<<k.name, k.email, k.phone, k.year>> : k \in rows}

\* the import of the exported document into J3 has been answered
RoundTripDone(c) ==
  req[c].op = "import" /\ req[c].pc = "done" /\ req[c].journalId = "J3"

\* C21 -- Export round-trip: after exporting with no filters and importing
\* the document into a fresh journal, that journal holds exactly the
\* (name, email, phone, year) tuples of the contacts that were exported,
\* also when an address is stored under several journals.
C21_ExportRoundTrip ==
  \A c \in Clients :
    RoundTripDone(c) =>
      Tuples({k \in contacts : k.journalId = "J3"}) = Tuples(req[c].before)

\* the round trip does reproduce the tuples when no address was exported
\* twice and no exported name or phone starts or ends with a blank
RoundTripDistinctTrimmed ==
  \A c \in Clients :
    LET plain == /\ \A k \in req[c].before : \A m \in req[c].before :
                      k.email = m.email => k = m
                 /\ \A k \in req[c].before :
                      /\ trim(k.name) = k.name
                      /\ k.phone # <<>> => trim(k.phone[1]) = k.phone[1]
    IN (RoundTripDone(c) /\ plain) =>
         Tuples({k \in contacts : k.journalId = "J3"}) = Tuples(req[c].before)

\* a round trip of two contacts, one with a quoted name, a phone and a year
RoundTripReached ==
  \E c \in Clients :
    /\ RoundTripDone(c)
    /\ req[c].resp.status = 200
    /\ req[c].resp.summary.imported = 2
    /\ \E k \in contacts : k.journalId = "J3" /\ k.year = <<2023>>
                           /\ k.name = <<"a", ",", "\"", "b">>
====
